---- MODULE Spec2Model ----
(***************************************************************************)
(* Model of the global input/clipboard event dispatcher of gonutz/auto:    *)
(* the registration functions SetOnKeyboardEvent / SetOnMouseEvent /       *)
(* SetOnClipboardChange, the process-wide messageLoop record, the          *)
(* unbuffered hand-off channel newEvents and the pump goroutine            *)
(* messageLoop.loop with its three hook closures.                          *)
(*                                                                         *)
(* Caller goroutines are the elements of Threads; the pump goroutine is    *)
(* described by pumpPc.  Every step of the pump records in osCalls the OS  *)
(* calls it issued, and in lastProc the hook / window procedure invocation *)
(* it completed, so that properties about OS calls can be stated.          *)
(***************************************************************************)
EXTENDS Integers, Sequences, FiniteSets, TLC

\* ---------------------------------------------------------------- bounds
\* number of registration calls that are started when there is one caller
\* goroutine (calls made by a running callback included)
MaxCalls == 3
\* number of registration calls that are started when there are two
MaxConcurrentCalls == 2
\* total number of OS events / messages delivered to the pump thread
MaxEvents == 2

\* ------------------------------------------------------------- constants
Nil == "nil"
\* two distinguishable user callbacks
Callbacks == {"f", "g"}
Funcs == Callbacks \cup {Nil}
\* caller goroutines; they are anonymous, a new call is made by the first
\* caller that is not inside a call
Threads == {1, 2}
Categories == {"keyboard", "mouse", "clipboard"}
HookCategories == {"keyboard", "mouse"}
\* hook codes passed to a low-level hook procedure: negative, and HC_ACTION
HookCodes == {-1, 0}
\* messages a listener window receives
WindowMessages == {"WM_CLIPBOARDUPDATE", "WM_OTHER"}
\* SetWindowsHookEx / CreateWindowEx return 0 on failure, a handle otherwise
InstallResults == {0, 1}
\* possible results of CallNextHookEx
NextHookResults == {0, 1}
NoEvent == [cat |-> "none", id |-> 0, code |-> 0, msg |-> "none", cancelled |-> FALSE]
NoProc == [cat |-> "none", id |-> 0, code |-> 0, msg |-> "none", invoked |-> FALSE,
           cancelled |-> FALSE, ret |-> 0, next |-> -1]

VARIABLES
    callers,            \* the caller goroutines of this run
    m,                  \* the messageLoop record: mu, running, three callbacks
    pc,                 \* position of every caller goroutine
    snap,               \* the events value a caller built for its send
    calls,              \* number of registration calls started
    overlapped,         \* some registration call started while another ran
    loopsStarted,       \* number of "go m.loop()" executed
    pumpPc,             \* position of the pump goroutine
    events,             \* loop(): the snapshot received last
    keyboardCallback, mouseCallback, clipboardCallback,
    keyboardHook, mouseHook, clipboardWindow,
    listener,           \* OS: clipboardWindow is a clipboard format listener
    msgQ,               \* OS: deliveries pending for the pump thread
    nextId,             \* OS: serial number of the next delivery
    e,                  \* the event object of the running hook procedure
    callee,             \* the user callback that is running
    osCalls,            \* OS calls issued by the latest step
    lastProc,           \* hook / window procedure completed by the latest step
    failed,             \* per category: the latest reconciliation failed to install
    before,             \* during a reconciliation: callbacks and snapshot before the accept
    registered,         \* per category: the argument of the latest registration call
    raw,                \* hook records handed to the hook procedures in isolation
    built,              \* what the hook procedures made of the records of raw
    monitors,           \* the argument of a call of CaptureMonitors
    captured,           \* what that call did and returned
    request,            \* a call of one of the input functions: its name and arguments
    sent,               \* the OS calls that call has made, with their results
    result,             \* the error that call returned
    typing              \* TypeWithDelay: the string s, the slice keys, the runes done

callerVars == <<callers, pc, snap, calls, overlapped>>
loopVars == <<keyboardCallback, mouseCallback, clipboardCallback,
              keyboardHook, mouseHook, clipboardWindow, listener, failed>>
queueVars == <<msgQ, nextId>>
procVars == <<e, callee>>
inputVars == <<request, sent, result, typing>>
recordVars == <<raw, built, monitors, captured, inputVars>>
vars == <<callers, m, pc, snap, calls, overlapped, loopsStarted, pumpPc, events,
          keyboardCallback, mouseCallback, clipboardCallback,
          keyboardHook, mouseHook, clipboardWindow, listener,
          msgQ, nextId, e, callee, osCalls, lastProc, failed,
          before, registered, raw, built, monitors, captured,
          request, sent, result, typing>>

\* ------------------------------------------------------------- helpers
NoEvents == [keyboard |-> Nil, mouse |-> Nil, clipboard |-> Nil]

\* no input function is called
NoRequest == [fn |-> "none"]
NoTyping == [s |-> <<>>, keys |-> <<>>, i |-> 0]

\* outside a reconciliation nothing is remembered about the state before it
NoBefore == [cb |-> NoEvents, ev |-> NoEvents]

\* no call of CaptureMonitors was made
NoCapture == [called |-> FALSE, err |-> FALSE, rects |-> <<>>]

\* events.allNil
allNil(ev) == ev.keyboard = Nil /\ ev.mouse = Nil /\ ev.clipboard = Nil

\* the callback registered last for a category (field of messageLoop)
Desired(c) ==
    CASE c = "keyboard" -> m.keyboardEvent
      [] c = "mouse" -> m.mouseEvent
      [] c = "clipboard" -> m.clipboardEvent

\* the pump's current callback of a category
CallbackOf(c) ==
    CASE c = "keyboard" -> keyboardCallback
      [] c = "mouse" -> mouseCallback
      [] c = "clipboard" -> clipboardCallback

\* the pump's handle of a category
HandleOf(c) ==
    CASE c = "keyboard" -> keyboardHook
      [] c = "mouse" -> mouseHook
      [] c = "clipboard" -> clipboardWindow

\* the registration calls a run may still start
CallsLeft == (IF Cardinality(callers) = 1 THEN MaxCalls ELSE MaxConcurrentCalls) - calls

AllIdle == \A t \in Threads : pc[t] = "idle"

Count(s, x) == Cardinality({i \in 1..Len(s) : s[i] = x})

\* ---------------------------------------------------------------- Init
Init ==
    /\ callers \in {{1}, Threads}
    /\ m = [mu |-> 0, running |-> FALSE,
            keyboardEvent |-> Nil, mouseEvent |-> Nil, clipboardEvent |-> Nil]
    /\ pc = [t \in Threads |-> "idle"]
    /\ snap = [t \in Threads |-> NoEvents]
    /\ calls = 0
    /\ overlapped = FALSE
    /\ loopsStarted = 0
    /\ pumpPc = "none"
    /\ events = NoEvents
    /\ keyboardCallback = Nil /\ mouseCallback = Nil /\ clipboardCallback = Nil
    /\ keyboardHook = 0 /\ mouseHook = 0 /\ clipboardWindow = 0
    /\ listener = FALSE
    /\ msgQ = <<>>
    /\ nextId = 1
    /\ e = NoEvent
    /\ callee = Nil
    /\ osCalls = <<>>
    /\ lastProc = NoProc
    /\ failed = [c \in Categories |-> FALSE]
    /\ before = NoBefore
    /\ registered = NoEvents
    /\ raw = <<>>
    /\ built = <<>>
    /\ monitors = <<>>
    /\ captured = NoCapture
    /\ request = NoRequest
    /\ sent = <<>>
    /\ result = "none"
    /\ typing = NoTyping

\* --------------------------------------------------- registration facade
\* first statement of a setter: the unsynchronised write of the own field
BeginCall(t, c, f, newM) ==
    /\ t \in callers
    /\ pc[t] = "idle"
    /\ \A u \in callers : u < t => pc[u] # "idle"
    /\ CallsLeft > 0
    /\ m' = newM
    /\ registered' = [registered EXCEPT ![c] = f]
    /\ pc' = [pc EXCEPT ![t] = "lock"]
    /\ calls' = calls + 1
    /\ overlapped' = (overlapped \/ \E u \in Threads \ {t} : pc[u] # "idle")
    /\ osCalls' = <<>>
    /\ lastProc' = NoProc
    /\ UNCHANGED <<recordVars, before,
                   callers, snap, loopsStarted, pumpPc, events, loopVars, queueVars,
                   procVars>>

setKeyboardEvent(t, f) == BeginCall(t, "keyboard", f, [m EXCEPT !.keyboardEvent = f])

\* setMouseEvent, but the write also resets the keyboard field
setMouseEventClobbers(t, f) ==
    BeginCall(t, "mouse", f, [m EXCEPT !.mouseEvent = f, !.keyboardEvent = Nil])

setMouseEvent(t, f) == BeginCall(t, "mouse", f, [m EXCEPT !.mouseEvent = f])

setClipboardEvent(t, f) == BeginCall(t, "clipboard", f, [m EXCEPT !.clipboardEvent = f])

\* Lock, but the mutex excludes nobody
LockNoMutex(t) ==
    /\ pc[t] = "lock"
    /\ m' = [m EXCEPT !.mu = t]
    /\ pc' = [pc EXCEPT ![t] = IF m.running THEN "unlock" ELSE "launch"]
    /\ osCalls' = <<>>
    /\ lastProc' = NoProc
    /\ UNCHANGED <<recordVars, before, registered,
                   callers, snap, calls, overlapped, loopsStarted, pumpPc, events,
                   loopVars, queueVars, procVars>>

\* startLoop: m.mu.Lock() and, holding the mutex, the test "if !m.running"
Lock(t) ==
    /\ pc[t] = "lock"
    /\ m.mu = 0
    /\ m' = [m EXCEPT !.mu = t]
    /\ pc' = [pc EXCEPT ![t] = IF m.running THEN "unlock" ELSE "launch"]
    /\ osCalls' = <<>>
    /\ lastProc' = NoProc
    /\ UNCHANGED <<recordVars, before, registered,
                   callers, snap, calls, overlapped, loopsStarted, pumpPc, events,
                   loopVars, queueVars, procVars>>

\* startLoop: m.running = true; go m.loop()
Launch(t) ==
    /\ pc[t] = "launch"
    /\ m' = [m EXCEPT !.running = TRUE]
    /\ loopsStarted' = loopsStarted + 1
    /\ pumpPc' = IF pumpPc = "none" THEN "select" ELSE pumpPc
    /\ pc' = [pc EXCEPT ![t] = "unlock"]
    /\ osCalls' = <<>>
    /\ lastProc' = NoProc
    /\ UNCHANGED <<recordVars, before, registered,
                   callers, snap, calls, overlapped, events, loopVars, queueVars,
                   procVars>>

\* startLoop: m.mu.Unlock(); updateEvents: the operand events{...} of the
\* send is evaluated from the three fields
Unlock(t) ==
    /\ pc[t] = "unlock"
    /\ m' = [m EXCEPT !.mu = 0]
    /\ snap' = [snap EXCEPT ![t] = [keyboard |-> m.keyboardEvent,
                                    mouse |-> m.mouseEvent,
                                    clipboard |-> m.clipboardEvent]]
    /\ pc' = [pc EXCEPT ![t] = "send"]
    /\ osCalls' = <<>>
    /\ lastProc' = NoProc
    /\ UNCHANGED <<recordVars, before, registered,
                   callers, calls, overlapped, loopsStarted, pumpPc, events,
                   loopVars, queueVars, procVars>>

\* --------------------------------------------------------- the pump loop
\* Accept, but a nil field of the snapshot leaves the current callback alone
AcceptKeepsOnNil(ev) ==
    /\ events' = ev
    /\ osCalls' = <<>>
    /\ lastProc' = NoProc
    /\ IF allNil(ev)
       THEN /\ pumpPc' = "wait"
            /\ UNCHANGED <<keyboardCallback, mouseCallback, clipboardCallback, before>>
       ELSE /\ pumpPc' = "hookMouse"
            /\ before' = [cb |-> [keyboard |-> keyboardCallback,
                                  mouse |-> mouseCallback,
                                  clipboard |-> clipboardCallback],
                          ev |-> events]
            /\ keyboardCallback' = IF ev.keyboard # Nil THEN ev.keyboard ELSE keyboardCallback
            /\ mouseCallback' = IF ev.mouse # Nil THEN ev.mouse ELSE mouseCallback
            /\ clipboardCallback' = IF ev.clipboard # Nil THEN ev.clipboard ELSE clipboardCallback
    /\ UNCHANGED <<keyboardHook, mouseHook, clipboardWindow, listener, failed>>

\* Accept, but after an all-nil snapshot the pump goes on polling
AcceptNoWait(ev) ==
    /\ events' = ev
    /\ osCalls' = <<>>
    /\ lastProc' = NoProc
    /\ IF allNil(ev)
       THEN /\ pumpPc' = "select"
            /\ UNCHANGED <<keyboardCallback, mouseCallback, clipboardCallback, before>>
       ELSE /\ pumpPc' = "hookMouse"
            /\ before' = [cb |-> [keyboard |-> keyboardCallback,
                                  mouse |-> mouseCallback,
                                  clipboard |-> clipboardCallback],
                          ev |-> events]
            /\ keyboardCallback' = ev.keyboard
            /\ mouseCallback' = ev.mouse
            /\ clipboardCallback' = ev.clipboard
    /\ UNCHANGED <<keyboardHook, mouseHook, clipboardWindow, listener, failed>>

\* Accept, but an all-nil snapshot ends the loop and runs the deferred release
AcceptExitsOnNil(ev) ==
    /\ events' = ev
    /\ lastProc' = NoProc
    /\ IF allNil(ev)
       THEN /\ pumpPc' = "none"
            /\ osCalls' = <<"UnhookWindowsHookEx.keyboard", "UnhookWindowsHookEx.mouse",
                            "RemoveClipboardFormatListener", "DestroyWindow">>
            /\ keyboardHook' = 0 /\ mouseHook' = 0 /\ clipboardWindow' = 0
            /\ listener' = FALSE
            /\ UNCHANGED <<keyboardCallback, mouseCallback, clipboardCallback, before,
                           failed>>
       ELSE /\ pumpPc' = "hookMouse"
            /\ osCalls' = <<>>
            /\ before' = [cb |-> [keyboard |-> keyboardCallback,
                                  mouse |-> mouseCallback,
                                  clipboard |-> clipboardCallback],
                          ev |-> events]
            /\ keyboardCallback' = ev.keyboard
            /\ mouseCallback' = ev.mouse
            /\ clipboardCallback' = ev.clipboard
            /\ UNCHANGED <<keyboardHook, mouseHook, clipboardWindow, listener, failed>>

\* Accept, but an all-nil snapshot is made current and reconciled
AcceptAppliesAllNil(ev) ==
    /\ events' = ev
    /\ osCalls' = <<>>
    /\ lastProc' = NoProc
    /\ pumpPc' = "hookMouse"
    /\ before' = [cb |-> [keyboard |-> keyboardCallback,
                          mouse |-> mouseCallback,
                          clipboard |-> clipboardCallback],
                  ev |-> events]
    /\ keyboardCallback' = ev.keyboard
    /\ mouseCallback' = ev.mouse
    /\ clipboardCallback' = ev.clipboard
    /\ UNCHANGED <<keyboardHook, mouseHook, clipboardWindow, listener, failed>>

\* Accept, but an all-nil snapshot releases every handle before the pump waits
AcceptReleasesOnNil(ev) ==
    /\ events' = ev
    /\ lastProc' = NoProc
    /\ IF allNil(ev)
       THEN /\ pumpPc' = "wait"
            /\ osCalls' = <<"UnhookWindowsHookEx.mouse", "UnhookWindowsHookEx.keyboard",
                            "RemoveClipboardFormatListener", "DestroyWindow">>
            /\ keyboardHook' = 0 /\ mouseHook' = 0 /\ clipboardWindow' = 0
            /\ listener' = FALSE
            /\ keyboardCallback' = Nil /\ mouseCallback' = Nil /\ clipboardCallback' = Nil
            /\ UNCHANGED <<before, failed>>
       ELSE /\ pumpPc' = "hookMouse"
            /\ osCalls' = <<>>
            /\ before' = [cb |-> [keyboard |-> keyboardCallback,
                                  mouse |-> mouseCallback,
                                  clipboard |-> clipboardCallback],
                          ev |-> events]
            /\ keyboardCallback' = ev.keyboard
            /\ mouseCallback' = ev.mouse
            /\ clipboardCallback' = ev.clipboard
            /\ UNCHANGED <<keyboardHook, mouseHook, clipboardWindow, listener, failed>>

\* the pump takes a snapshot: "events := <-m.newEvents", the allNil test and,
\* for a snapshot that is not all nil, the three assignments that follow
Accept(ev) ==
    /\ events' = ev
    /\ osCalls' = <<>>
    /\ lastProc' = NoProc
    /\ IF allNil(ev)
       THEN /\ pumpPc' = "wait"
            /\ UNCHANGED <<keyboardCallback, mouseCallback, clipboardCallback, before>>
       ELSE /\ pumpPc' = "hookMouse"
            /\ before' = [cb |-> [keyboard |-> keyboardCallback,
                                  mouse |-> mouseCallback,
                                  clipboard |-> clipboardCallback],
                          ev |-> events]
            /\ keyboardCallback' = ev.keyboard
            /\ mouseCallback' = ev.mouse
            /\ clipboardCallback' = ev.clipboard
    /\ UNCHANGED <<keyboardHook, mouseHook, clipboardWindow, listener, failed>>

\* Rendezvous, but the send gives up when the pump is not receiving
RendezvousNonBlocking(t) ==
    /\ pc[t] = "send"
    /\ pc' = [pc EXCEPT ![t] = "idle"]
    /\ snap' = [snap EXCEPT ![t] = NoEvents]
    /\ IF pumpPc \in {"select", "wait"}
       THEN Accept(snap[t])
       ELSE /\ osCalls' = <<>>
            /\ lastProc' = NoProc
            /\ UNCHANGED <<pumpPc, events, loopVars, before>>
    /\ UNCHANGED <<recordVars, registered,
                   callers, m, calls, overlapped, loopsStarted, queueVars, procVars>>

\* Rendezvous, but the pump also receives in the middle of a reconciliation
RendezvousAnytime(t) ==
    /\ pc[t] = "send"
    /\ pumpPc \in {"select", "wait", "hookMouse", "hookKeyboard", "hookClipboard"}
    /\ pc' = [pc EXCEPT ![t] = "idle"]
    /\ snap' = [snap EXCEPT ![t] = NoEvents]
    /\ Accept(snap[t])
    /\ UNCHANGED <<recordVars, registered,
                   callers, m, calls, overlapped, loopsStarted, queueVars, procVars>>

\* the send "m.newEvents <- events{...}" of caller t meets a receive of the
\* pump: newEvents is unbuffered, both sides move in the same step
Rendezvous(t) ==
    /\ pc[t] = "send"
    /\ pumpPc \in {"select", "wait"}
    /\ pc' = [pc EXCEPT ![t] = "idle"]
    /\ snap' = [snap EXCEPT ![t] = NoEvents]
    /\ Accept(snap[t])
    /\ UNCHANGED <<recordVars, registered,
                   callers, m, calls, overlapped, loopsStarted, queueVars, procVars>>

SenderWaiting == \E t \in Threads : pc[t] = "send"

\* hookMouse, but a wanted hook is installed again although one is held
hookMouseAlwaysInstalls ==
    /\ pumpPc = "hookMouse"
    /\ pumpPc' = "hookKeyboard"
    /\ lastProc' = NoProc
    /\ LET wantHook == mouseCallback # Nil
           haveHook == mouseHook # 0
       IN  IF wantHook = haveHook /\ ~wantHook
           THEN /\ osCalls' = <<>>
                /\ failed' = [failed EXCEPT !["mouse"] = FALSE]
                /\ UNCHANGED mouseHook
           ELSE IF wantHook
           THEN \E h \in InstallResults :
                    /\ mouseHook' = h
                    /\ osCalls' = <<"SetWindowsHookEx.mouse">>
                    /\ failed' = [failed EXCEPT !["mouse"] = (h = 0)]
           ELSE /\ mouseHook' = 0
                /\ osCalls' = <<"UnhookWindowsHookEx.mouse">>
                /\ failed' = [failed EXCEPT !["mouse"] = FALSE]
    /\ UNCHANGED <<recordVars, before, registered,
                   m, callerVars, loopsStarted, events, keyboardCallback,
                   mouseCallback, clipboardCallback, keyboardHook,
                   clipboardWindow, listener, queueVars, procVars>>

\* hookMouse, but an install that failed is not attempted again
hookMouseNoRetry ==
    /\ pumpPc = "hookMouse"
    /\ pumpPc' = "hookKeyboard"
    /\ lastProc' = NoProc
    /\ LET wantHook == mouseCallback # Nil
           haveHook == mouseHook # 0
       IN  IF wantHook = haveHook \/ (wantHook /\ failed["mouse"])
           THEN /\ osCalls' = <<>>
                /\ UNCHANGED failed
                /\ UNCHANGED mouseHook
           ELSE IF wantHook
           THEN \E h \in InstallResults :
                    /\ mouseHook' = h
                    /\ osCalls' = <<"SetWindowsHookEx.mouse">>
                    /\ failed' = [failed EXCEPT !["mouse"] = (h = 0)]
           ELSE /\ mouseHook' = 0
                /\ osCalls' = <<"UnhookWindowsHookEx.mouse">>
                /\ failed' = [failed EXCEPT !["mouse"] = FALSE]
    /\ UNCHANGED <<recordVars, before, registered,
                   m, callerVars, loopsStarted, events, keyboardCallback,
                   mouseCallback, clipboardCallback, keyboardHook,
                   clipboardWindow, listener, queueVars, procVars>>

hookMouse ==
    /\ pumpPc = "hookMouse"
    /\ pumpPc' = "hookKeyboard"
    /\ lastProc' = NoProc
    /\ LET wantHook == mouseCallback # Nil
           haveHook == mouseHook # 0
       IN  IF wantHook = haveHook
           THEN /\ osCalls' = <<>>
                /\ failed' = [failed EXCEPT !["mouse"] = FALSE]
                /\ UNCHANGED mouseHook
           ELSE IF wantHook
           THEN \E h \in InstallResults :
                    /\ mouseHook' = h
                    /\ osCalls' = <<"SetWindowsHookEx.mouse">>
                    /\ failed' = [failed EXCEPT !["mouse"] = (h = 0)]
           ELSE /\ mouseHook' = 0
                /\ osCalls' = <<"UnhookWindowsHookEx.mouse">>
                /\ failed' = [failed EXCEPT !["mouse"] = FALSE]
    /\ UNCHANGED <<recordVars, before, registered,
                   m, callerVars, loopsStarted, events, keyboardCallback,
                   mouseCallback, clipboardCallback, keyboardHook,
                   clipboardWindow, listener, queueVars, procVars>>

\* hookKeyboard, but the handle is kept after unhooking
hookKeyboardKeepsHandle ==
    /\ pumpPc = "hookKeyboard"
    /\ pumpPc' = "hookClipboard"
    /\ lastProc' = NoProc
    /\ LET wantHook == keyboardCallback # Nil
           haveHook == keyboardHook # 0
       IN  IF wantHook = haveHook
           THEN /\ osCalls' = <<>>
                /\ failed' = [failed EXCEPT !["keyboard"] = FALSE]
                /\ UNCHANGED keyboardHook
           ELSE IF wantHook
           THEN \E h \in InstallResults :
                    /\ keyboardHook' = h
                    /\ osCalls' = <<"SetWindowsHookEx.keyboard">>
                    /\ failed' = [failed EXCEPT !["keyboard"] = (h = 0)]
           ELSE /\ osCalls' = <<"UnhookWindowsHookEx.keyboard">>
                /\ failed' = [failed EXCEPT !["keyboard"] = FALSE]
                /\ UNCHANGED keyboardHook
    /\ UNCHANGED <<recordVars, before, registered,
                   m, callerVars, loopsStarted, events, keyboardCallback,
                   mouseCallback, clipboardCallback, mouseHook,
                   clipboardWindow, listener, queueVars, procVars>>

\* hookKeyboard, but a changed callback makes it unhook and hook again
hookKeyboardRehooks ==
    /\ pumpPc = "hookKeyboard"
    /\ pumpPc' = "hookClipboard"
    /\ lastProc' = NoProc
    /\ LET wantHook == keyboardCallback # Nil
           haveHook == keyboardHook # 0
       IN  IF wantHook = haveHook
           THEN IF wantHook /\ keyboardCallback # before.cb.keyboard
                THEN /\ osCalls' = <<"UnhookWindowsHookEx.keyboard",
                                     "SetWindowsHookEx.keyboard">>
                     /\ failed' = [failed EXCEPT !["keyboard"] = FALSE]
                     /\ UNCHANGED keyboardHook
                ELSE /\ osCalls' = <<>>
                     /\ failed' = [failed EXCEPT !["keyboard"] = FALSE]
                     /\ UNCHANGED keyboardHook
           ELSE IF wantHook
           THEN \E h \in InstallResults :
                    /\ keyboardHook' = h
                    /\ osCalls' = <<"SetWindowsHookEx.keyboard">>
                    /\ failed' = [failed EXCEPT !["keyboard"] = (h = 0)]
           ELSE /\ keyboardHook' = 0
                /\ osCalls' = <<"UnhookWindowsHookEx.keyboard">>
                /\ failed' = [failed EXCEPT !["keyboard"] = FALSE]
    /\ UNCHANGED <<recordVars, before, registered,
                   m, callerVars, loopsStarted, events, keyboardCallback,
                   mouseCallback, clipboardCallback, mouseHook,
                   clipboardWindow, listener, queueVars, procVars>>

hookKeyboard ==
    /\ pumpPc = "hookKeyboard"
    /\ pumpPc' = "hookClipboard"
    /\ lastProc' = NoProc
    /\ LET wantHook == keyboardCallback # Nil
           haveHook == keyboardHook # 0
       IN  IF wantHook = haveHook
           THEN /\ osCalls' = <<>>
                /\ failed' = [failed EXCEPT !["keyboard"] = FALSE]
                /\ UNCHANGED keyboardHook
           ELSE IF wantHook
           THEN \E h \in InstallResults :
                    /\ keyboardHook' = h
                    /\ osCalls' = <<"SetWindowsHookEx.keyboard">>
                    /\ failed' = [failed EXCEPT !["keyboard"] = (h = 0)]
           ELSE /\ keyboardHook' = 0
                /\ osCalls' = <<"UnhookWindowsHookEx.keyboard">>
                /\ failed' = [failed EXCEPT !["keyboard"] = FALSE]
    /\ UNCHANGED <<recordVars, before, registered,
                   m, callerVars, loopsStarted, events, keyboardCallback,
                   mouseCallback, clipboardCallback, mouseHook,
                   clipboardWindow, listener, queueVars, procVars>>

\* hookClipboard, but the window of a removed callback is not destroyed
hookClipboardKeepsWindow ==
    /\ pumpPc = "hookClipboard"
    /\ pumpPc' = "select"
    /\ before' = NoBefore
    /\ lastProc' = NoProc
    /\ LET wantHook == clipboardCallback # Nil
           haveHook == clipboardWindow # 0
       IN  IF wantHook = haveHook
           THEN /\ osCalls' = <<>>
                /\ failed' = [failed EXCEPT !["clipboard"] = FALSE]
                /\ UNCHANGED <<clipboardWindow, listener>>
           ELSE IF wantHook
           THEN \E w \in InstallResults, ok \in BOOLEAN :
                    /\ clipboardWindow' = w
                    \* AddClipboardFormatListener fails on the window 0
                    /\ listener' = (w # 0 /\ ok)
                    /\ osCalls' = <<"RegisterClassEx", "CreateWindowEx",
                                    "AddClipboardFormatListener">>
                    /\ failed' = [failed EXCEPT !["clipboard"] = ~(w # 0 /\ ok)]
           ELSE /\ UNCHANGED clipboardWindow
                /\ listener' = FALSE
                /\ osCalls' = <<"RemoveClipboardFormatListener">>
                /\ failed' = [failed EXCEPT !["clipboard"] = FALSE]
    /\ UNCHANGED <<recordVars, registered,
                   m, callerVars, loopsStarted, events, keyboardCallback,
                   mouseCallback, clipboardCallback, keyboardHook, mouseHook,
                   queueVars, procVars>>

hookClipboard ==
    /\ pumpPc = "hookClipboard"
    /\ pumpPc' = "select"
    /\ before' = NoBefore
    /\ lastProc' = NoProc
    /\ LET wantHook == clipboardCallback # Nil
           haveHook == clipboardWindow # 0
       IN  IF wantHook = haveHook
           THEN /\ osCalls' = <<>>
                /\ failed' = [failed EXCEPT !["clipboard"] = FALSE]
                /\ UNCHANGED <<clipboardWindow, listener>>
           ELSE IF wantHook
           THEN \E w \in InstallResults, ok \in BOOLEAN :
                    /\ clipboardWindow' = w
                    \* AddClipboardFormatListener fails on the window 0
                    /\ listener' = (w # 0 /\ ok)
                    /\ osCalls' = <<"RegisterClassEx", "CreateWindowEx",
                                    "AddClipboardFormatListener">>
                    /\ failed' = [failed EXCEPT !["clipboard"] = ~(w # 0 /\ ok)]
           ELSE /\ clipboardWindow' = 0
                /\ listener' = FALSE
                /\ osCalls' = <<"RemoveClipboardFormatListener", "DestroyWindow">>
                /\ failed' = [failed EXCEPT !["clipboard"] = FALSE]
    /\ UNCHANGED <<recordVars, registered,
                   m, callerVars, loopsStarted, events, keyboardCallback,
                   mouseCallback, clipboardCallback, keyboardHook, mouseHook,
                   queueVars, procVars>>

\* Sleep, but the default branch is taken although a sender is waiting
SleepIgnoresSender ==
    /\ pumpPc = "select"
    /\ msgQ = <<>>
    /\ osCalls' = <<"PeekMessage", "Sleep">>
    /\ lastProc' = NoProc
    /\ UNCHANGED <<recordVars, before, registered,
                   m, callerVars, loopsStarted, pumpPc, events, loopVars,
                   queueVars, procVars>>

\* PeekMessage found nothing: time.Sleep
Sleep ==
    /\ pumpPc = "select"
    /\ ~SenderWaiting
    /\ msgQ = <<>>
    /\ osCalls' = <<"PeekMessage", "Sleep">>
    /\ lastProc' = NoProc
    /\ UNCHANGED <<recordVars, before, registered,
                   m, callerVars, loopsStarted, pumpPc, events, loopVars,
                   queueVars, procVars>>

\* ReachesCallback, but the window procedure calls the callback for any message
ReachesCallbackAnyMessage(msg) ==
    IF msg.cat \in HookCategories
    THEN msg.code >= 0
    ELSE TRUE

\* does the procedure of this delivery reach the call of the user callback:
\* "if code >= 0" of the hook procedures, "case WM_CLIPBOARDUPDATE" of the
\* window procedure
ReachesCallback(msg) ==
    IF msg.cat \in HookCategories
    THEN msg.code >= 0
    ELSE msg.msg = "WM_CLIPBOARDUPDATE"

\* HookReturn, but the cancellation flag is not looked at
HookReturnIgnoresCancel(ev, invoked, done) ==
    \E r \in NextHookResults :
        /\ lastProc' = [cat |-> ev.cat, id |-> ev.id, code |-> ev.code,
                        msg |-> ev.msg, invoked |-> invoked,
                        cancelled |-> ev.cancelled, ret |-> r, next |-> r]
        /\ osCalls' = Append(done, "CallNextHookEx")

\* the end of a hook procedure: "if e.cancelled { return 1 }" inside
\* "if code >= 0", else "return CallNextHookEx(...)"; done are the OS calls
\* the step issued before
HookReturn(ev, invoked, done) ==
    IF ev.code >= 0 /\ ev.cancelled
    THEN /\ lastProc' = [cat |-> ev.cat, id |-> ev.id, code |-> ev.code,
                         msg |-> ev.msg, invoked |-> invoked,
                         cancelled |-> TRUE, ret |-> 1, next |-> -1]
         /\ osCalls' = done
    ELSE \E r \in NextHookResults :
         /\ lastProc' = [cat |-> ev.cat, id |-> ev.id, code |-> ev.code,
                         msg |-> ev.msg, invoked |-> invoked,
                         cancelled |-> ev.cancelled, ret |-> r, next |-> r]
         /\ osCalls' = Append(done, "CallNextHookEx")

\* the end of the window procedure: "return 0" after the callback, or
\* "return DefWindowProc(...)" for every other message
WndReturn(ev, invoked, done) ==
    /\ lastProc' = [cat |-> ev.cat, id |-> ev.id, code |-> ev.code,
                    msg |-> ev.msg, invoked |-> invoked,
                    cancelled |-> FALSE, ret |-> 0, next |-> -1]
    /\ osCalls' = IF ev.msg = "WM_CLIPBOARDUPDATE"
                  THEN done
                  ELSE Append(done, "DefWindowProc")

ProcReturn(ev, invoked, done) ==
    IF ev.cat \in HookCategories
    THEN HookReturn(ev, invoked, done)
    ELSE WndReturn(ev, invoked, done)

\* PeekMessage found a delivery and removes it, the k-th of the queue: TranslateMessage, DispatchMessage.  The OS
\* runs the hook / window procedure of the delivery on the pump thread if the
\* hook / window still exists; the procedure runs up to the call of the user
\* callback, or to its end when it does not call one
DeliverMsg(k) ==
    /\ pumpPc = "select"
    /\ ~SenderWaiting
    /\ msgQ # <<>>
    /\ msgQ' = SubSeq(msgQ, 1, k - 1) \o SubSeq(msgQ, k + 1, Len(msgQ))
    /\ LET msg == msgQ[k]
           ev == [cat |-> msg.cat, id |-> msg.id, code |-> msg.code,
                  msg |-> msg.msg, cancelled |-> FALSE]
           done == <<"PeekMessage", "TranslateMessage", "DispatchMessage">>
       IN  IF HandleOf(msg.cat) = 0
           THEN /\ osCalls' = done
                /\ lastProc' = NoProc
                /\ UNCHANGED <<pumpPc, procVars>>
           ELSE IF ReachesCallback(msg) /\ CallbackOf(msg.cat) # Nil
           THEN /\ e' = ev
                /\ callee' = CallbackOf(msg.cat)
                /\ pumpPc' = "callback"
                /\ osCalls' = done
                /\ lastProc' = NoProc
           ELSE /\ ProcReturn(ev, FALSE, done)
                /\ UNCHANGED <<pumpPc, procVars>>
    /\ UNCHANGED <<recordVars, before, registered,
                   m, callerVars, loopsStarted, events, loopVars, nextId>>

\* Deliver, but PeekMessage takes the delivery that arrived last
DeliverNewest == DeliverMsg(Len(msgQ))

\* PeekMessage takes the oldest pending delivery
Deliver == DeliverMsg(1)

\* the running user callback calls e.Cancel()
Cancel ==
    /\ pumpPc = "callback"
    /\ e.cat \in HookCategories
    /\ e' = [e EXCEPT !.cancelled = TRUE]
    /\ osCalls' = <<>>
    /\ lastProc' = NoProc
    /\ UNCHANGED <<recordVars, before, registered,
                   m, callerVars, loopsStarted, pumpPc, events, loopVars,
                   queueVars, callee>>

\* the running user callback returns and the procedure runs to its end
CallbackReturn ==
    /\ pumpPc = "callback"
    /\ pumpPc' = "select"
    /\ e' = NoEvent
    /\ callee' = Nil
    /\ ProcReturn(e, TRUE, <<>>)
    /\ UNCHANGED <<recordVars, before, registered,
                   m, callerVars, loopsStarted, events, loopVars, queueVars>>

\* the running user callback itself calls a registration function: the write
\* of the field, startLoop (nothing to start, the pump is running) and the
\* send, which the pump thread executes itself
CallbackRegisters(c, f) ==
    /\ pumpPc = "callback"
    /\ CallsLeft > 0
    /\ m.mu = 0
    /\ m' = CASE c = "keyboard" -> [m EXCEPT !.keyboardEvent = f]
              [] c = "mouse" -> [m EXCEPT !.mouseEvent = f]
              [] c = "clipboard" -> [m EXCEPT !.clipboardEvent = f]
    /\ registered' = [registered EXCEPT ![c] = f]
    /\ calls' = calls + 1
    /\ overlapped' = (overlapped \/ \E u \in Threads : pc[u] # "idle")
    /\ pumpPc' = "cbsend"
    /\ osCalls' = <<>>
    /\ lastProc' = NoProc
    /\ UNCHANGED <<recordVars, before,
                   callers, pc, snap, loopsStarted, events, loopVars, queueVars,
                   procVars>>

\* ------------------------------------------------------------------ OS
\* a keyboard / mouse action reaches the installed low-level hook
OSHookEvent(c, code) ==
    /\ nextId <= MaxEvents
    /\ HandleOf(c) # 0
    /\ msgQ' = Append(msgQ, [cat |-> c, id |-> nextId, code |-> code, msg |-> "hook"])
    /\ nextId' = nextId + 1
    /\ osCalls' = <<>>
    /\ lastProc' = NoProc
    /\ UNCHANGED <<recordVars, before, registered,
                   m, callerVars, loopsStarted, pumpPc, events, loopVars,
                   procVars>>

\* a message is posted to the listener window; WM_CLIPBOARDUPDATE only to a
\* window that is a clipboard format listener
OSWindowMessage(wm) ==
    /\ nextId <= MaxEvents
    /\ clipboardWindow # 0
    /\ wm = "WM_CLIPBOARDUPDATE" => listener
    /\ msgQ' = Append(msgQ, [cat |-> "clipboard", id |-> nextId, code |-> 0, msg |-> wm])
    /\ nextId' = nextId + 1
    /\ osCalls' = <<>>
    /\ lastProc' = NoProc
    /\ UNCHANGED <<recordVars, before, registered,
                   m, callerVars, loopsStarted, pumpPc, events, loopVars,
                   procVars>>

\* ---------------------------------------------------------- specification
CallerStep(t) ==
    \/ Lock(t)
    \/ Launch(t)
    \/ Unlock(t)

PumpStep ==
    \/ \E t \in Threads : Rendezvous(t)
    \/ hookMouse
    \/ hookKeyboard
    \/ hookClipboard
    \/ Sleep
    \/ Deliver
    \/ CallbackReturn

Next ==
    \/ \E t \in Threads, f \in Funcs : setKeyboardEvent(t, f)
    \/ \E t \in Threads, f \in Funcs : setMouseEvent(t, f)
    \/ \E t \in Threads, f \in Funcs : setClipboardEvent(t, f)
    \/ \E t \in Threads : CallerStep(t)
    \/ PumpStep
    \/ Cancel
    \/ \E c \in Categories, f \in Funcs : CallbackRegisters(c, f)
    \/ \E c \in HookCategories, code \in HookCodes : OSHookEvent(c, code)
    \/ \E wm \in WindowMessages : OSWindowMessage(wm)

Spec == Init /\ [][Next]_vars

\* the Go scheduler runs every goroutine that can run, and a user callback
\* that makes no registration call returns
FairSpec ==
    /\ Spec
    /\ WF_vars(PumpStep)
    /\ \A t \in Threads : WF_vars(CallerStep(t))

\* ------------------------------------------------------------ properties
DesiredEvents == [keyboard |-> m.keyboardEvent, mouse |-> m.mouseEvent,
                  clipboard |-> m.clipboardEvent]

\* the pump is not inside a reconciliation
Pumping == pumpPc \notin {"hookMouse", "hookKeyboard", "hookClipboard"}

\* C1: with one caller at a time and installs that succeed, once the calls
\* have returned and the pump has run its loop body, a handle is installed
\* for a category exactly if the callback registered last for it is not nil
C1_HandlesFollowRegistration ==
    (/\ ~overlapped
     /\ AllIdle
     /\ pumpPc \in {"select", "wait", "callback"}
     /\ \A c \in Categories : ~failed[c])
    => \A c \in Categories : (HandleOf(c) # 0) <=> (Desired(c) # Nil)

\* C2: a keyboard / mouse hook invocation with code >= 0 returns 1 without
\* calling CallNextHookEx if the event was cancelled, and otherwise calls
\* CallNextHookEx exactly once and returns its result
C2_CancelOrPassOn ==
    (lastProc.cat \in HookCategories /\ lastProc.code >= 0)
    => IF lastProc.cancelled
       THEN lastProc.ret = 1 /\ Count(osCalls, "CallNextHookEx") = 0
       ELSE Count(osCalls, "CallNextHookEx") = 1 /\ lastProc.ret = lastProc.next

C2_Witness ==
    /\ lastProc.cat = "mouse"
    /\ lastProc.code >= 0
    /\ lastProc.invoked
    /\ lastProc.cancelled
    /\ lastProc.ret = 1

\* C3: with no concurrent registration calls, while the callback registered
\* last for a category is nil and that call has returned, no user callback
\* of the category is invoked
C3_NoCallbackAfterRemoval ==
    [][\A c \in Categories :
         (~overlapped /\ AllIdle /\ Desired(c) = Nil)
         => ~(pumpPc # "callback" /\ pumpPc' = "callback" /\ e'.cat = c)]_vars

C3_Witness ==
    /\ ~overlapped
    /\ AllIdle
    /\ calls >= 2
    /\ m.keyboardEvent = Nil
    /\ pumpPc = "select"
    /\ msgQ # <<>>
    /\ Head(msgQ).cat = "keyboard"
    /\ Head(msgQ).code >= 0

\* C4: once all registration calls have returned, the snapshot the pump
\* received last equals the desired-callback record
C4_LastSnapshotIsDesired ==
    (AllIdle /\ pumpPc \notin {"none", "cbsend"}) => events = DesiredEvents

\* C5: every registration call returns, also one made by a running callback
C5_EveryCallReturns ==
    /\ \A t \in Threads : (pc[t] # "idle") ~> (pc[t] = "idle")
    /\ (pumpPc = "cbsend") ~> (pumpPc # "cbsend")

\* C6: the pump goroutine is started exactly once: at most one loop is ever
\* started, the running flag is set exactly when one was started, and the
\* flag never goes back to false
C6_PumpStartedOnce ==
    /\ [](loopsStarted <= 1 /\ (m.running <=> loopsStarted = 1))
    /\ [][m.running => m'.running]_vars

C6_Witness ==
    /\ callers = Threads
    /\ \A t \in Threads : pc[t] = "send"
    /\ loopsStarted = 1
    /\ pumpPc = "select"

\* C7: a registration call returns from its send only in a step in which the
\* pump, being at a receive, takes the snapshot of that call
C7_ReturnImpliesAccepted ==
    [][\A t \in Threads :
         (pc[t] = "send" /\ pc'[t] = "idle")
         => (pumpPc \in {"select", "wait"} /\ events' = snap[t])]_vars

C7_Witness ==
    /\ AllIdle
    /\ calls = 2
    /\ events = [keyboard |-> "f", mouse |-> "g", clipboard |-> Nil]
    /\ pumpPc = "hookMouse"

\* C8: while a user callback runs, no snapshot is accepted, no delivery is
\* taken from the queue and no other callback is invoked; and a callback is
\* invoked for the oldest delivery, every pending one being newer
C8_OneCallbackAtATime ==
    [][/\ pumpPc = "callback"
          => /\ events' = events
             /\ Len(msgQ') >= Len(msgQ)
             /\ SubSeq(msgQ', 1, Len(msgQ)) = msgQ
             /\ (pumpPc' \in {"callback", "cbsend"} => e'.id = e.id /\ callee' = callee)
       /\ (pumpPc # "callback" /\ pumpPc' = "callback")
          => \A k \in 1..Len(msgQ') : msgQ'[k].id > e'.id]_vars

C8_Witness ==
    /\ pumpPc = "callback"
    /\ e.id = 2
    /\ SenderWaiting

\* C9 as stated: outside a reconciliation, a handle is present exactly if
\* the pump's current callback of the category is present
C9_HandleIffCallback ==
    Pumping => \A c \in Categories : (HandleOf(c) # 0) <=> (CallbackOf(c) # Nil)

\* C9 amended: outside a reconciliation, a present handle implies a present
\* current callback, and a present callback lacks its handle only if the
\* install of the latest reconciliation of the category failed
C9_HandleImpliesCallback ==
    Pumping => \A c \in Categories :
                  /\ HandleOf(c) # 0 => CallbackOf(c) # Nil
                  /\ (CallbackOf(c) # Nil /\ HandleOf(c) = 0) => failed[c]

C9_Witness ==
    /\ pumpPc = "select"
    /\ mouseCallback # Nil /\ mouseHook # 0
    /\ keyboardCallback # Nil /\ keyboardHook = 0
    /\ clipboardCallback = Nil /\ clipboardWindow = 0

\* C10: when the pump is blocked in the receive that waits for a callback,
\* no handle is installed and none of its current callbacks is set
C10_BlockedOnlyWhenIdle ==
    pumpPc = "wait" => \A c \in Categories : HandleOf(c) = 0 /\ CallbackOf(c) = Nil

\* the pump's current callbacks as one snapshot value
Current == [keyboard |-> keyboardCallback, mouse |-> mouseCallback,
            clipboard |-> clipboardCallback]

Handles == [keyboard |-> keyboardHook, mouse |-> mouseHook,
            clipboard |-> clipboardWindow]

InReconciliation == pumpPc \in {"hookMouse", "hookKeyboard", "hookClipboard"}

\* the position of the pump at which the hook function of a category runs
HookPcOf(c) ==
    CASE c = "keyboard" -> "hookKeyboard"
      [] c = "mouse" -> "hookMouse"
      [] c = "clipboard" -> "hookClipboard"

\* the name under which osCalls records the install call of a hook category
InstallCall(c) ==
    CASE c = "keyboard" -> "SetWindowsHookEx.keyboard"
      [] c = "mouse" -> "SetWindowsHookEx.mouse"

C12_ReRegistrationIsNoOp ==
    [][(InReconciliation /\ before.cb = Current /\ \A c \in Categories : ~failed[c])
       => (osCalls' = <<>> /\ Handles' = Handles)]_vars

C12_Witness ==
    /\ AllIdle /\ ~overlapped
    /\ calls = 2
    /\ pumpPc = "hookKeyboard"
    /\ before.cb = Current
    /\ keyboardCallback = "f"
    /\ keyboardHook # 0

C14_FailedInstallRetried ==
    /\ [](\A c \in HookCategories : failed[c] => HandleOf(c) = 0)
    /\ [][\A c \in HookCategories :
            /\ Count(osCalls', InstallCall(c)) > 0 => pumpPc = HookPcOf(c)
            /\ (/\ pumpPc = HookPcOf(c) /\ pumpPc' # pumpPc
                /\ failed[c] /\ CallbackOf(c) # Nil)
               => osCalls' = <<InstallCall(c)>>]_vars

C14_Witness ==
    /\ AllIdle
    /\ calls = 2
    /\ pumpPc = "hookMouse"
    /\ failed["mouse"]
    /\ mouseCallback # Nil
    /\ mouseHook = 0

\* C17: during a reconciliation the pump's callbacks are the snapshot accepted
\* last, no further snapshot is accepted and no sender is released; the three
\* hook functions run once each in their order, and a reconciliation starts
\* only with the acceptance of the snapshot it applies
C17_ReconciledInAcceptanceOrder ==
    /\ [](InReconciliation => Current = events)
    /\ [][/\ InReconciliation
             => /\ events' = events
                /\ Current' = Current
                /\ \A t \in Threads : pc[t] = "send" => pc'[t] = "send"
          /\ pumpPc = "hookMouse" => pumpPc' \in {"hookMouse", "hookKeyboard"}
          /\ pumpPc = "hookKeyboard" => pumpPc' \in {"hookKeyboard", "hookClipboard"}
          /\ pumpPc = "hookClipboard" => pumpPc' \in {"hookClipboard", "select"}
          /\ (pumpPc' = "hookMouse" /\ pumpPc # "hookMouse")
             => /\ pumpPc \in {"select", "wait"}
                /\ \E t \in Threads : /\ pc[t] = "send" /\ pc'[t] = "idle"
                                      /\ events' = snap[t]]_vars

C17_Witness ==
    /\ pumpPc = "hookKeyboard"
    /\ SenderWaiting
    /\ calls = 2

\* C18: the three fields of the record hold, each, the argument of the latest
\* registration call of its category; and with one caller at a time the
\* snapshot a call builds, and the one the pump accepts, is that record
C18_OnlyOwnFieldChanges ==
    /\ [](DesiredEvents = registered)
    /\ [][\A t \in Threads :
            /\ (~overlapped /\ pc[t] = "unlock" /\ pc'[t] = "send")
               => snap'[t] = registered
            /\ (~overlapped /\ pc[t] = "send" /\ pc'[t] = "idle")
               => events' = registered]_vars

C18_Witness ==
    /\ ~overlapped
    /\ calls = 3
    /\ pc[1] = "send"
    /\ snap[1] = [keyboard |-> "f", mouse |-> "g", clipboard |-> "f"]

\* C19: with one caller at a time, a reconciliation issues no OS call for a
\* category whose field is the same in the accepted snapshot as in the one
\* received before and whose handle matched its callback, and leaves the
\* handle and the current callback of that category as they were
C19_OtherCategoriesUntouched ==
    [][\A c \in Categories :
         (/\ ~overlapped
          /\ pumpPc = HookPcOf(c)
          /\ events[c] = before.ev[c]
          /\ (HandleOf(c) # 0) <=> (before.cb[c] # Nil))
         => /\ osCalls' = <<>>
            /\ HandleOf(c)' = HandleOf(c)
            /\ CallbackOf(c) = before.cb[c]]_vars

\* a caller's send is accepted by this step
Accepted(t) == pc[t] = "send" /\ pc'[t] = "idle"

\* C22: a message dispatched to the listener window while the clipboard
\* callback is set invokes the callback, once, exactly if it is
\* WM_CLIPBOARDUPDATE; any other message invokes nothing and is handed to
\* DefWindowProc once
C22_ClipboardUpdateInvokesOnce ==
    /\ [](lastProc.cat = "clipboard"
          => /\ lastProc.invoked <=> (lastProc.msg = "WM_CLIPBOARDUPDATE")
             /\ Count(osCalls, "DefWindowProc")
                = IF lastProc.msg = "WM_CLIPBOARDUPDATE" THEN 0 ELSE 1)
    /\ [](pumpPc = "callback" => \A k \in 1..Len(msgQ) : msgQ[k].id # e.id)
    /\ [][(/\ pumpPc = "select"
           /\ Len(msgQ') < Len(msgQ)
           /\ Head(msgQ).cat = "clipboard"
           /\ clipboardWindow # 0
           /\ clipboardCallback # Nil)
          => IF Head(msgQ).msg = "WM_CLIPBOARDUPDATE"
             THEN /\ pumpPc' = "callback"
                  /\ callee' = clipboardCallback
                  /\ e'.id = Head(msgQ).id
             ELSE /\ pumpPc' = "select"
                  /\ lastProc'.id = Head(msgQ).id
                  /\ ~lastProc'.invoked]_vars

C22_Witness ==
    /\ lastProc.cat = "clipboard"
    /\ lastProc.msg = "WM_CLIPBOARDUPDATE"
    /\ lastProc.invoked
    /\ lastProc.id = 2
    /\ clipboardWindow # 0
    /\ listener

\* C24: once started the pump never leaves its loop, the running flag stays
\* set, and a handle is given up only by the hook function of its category
\* when the callback of the category is nil
C24_PumpNeverStops ==
    /\ [](m.running <=> pumpPc # "none")
    /\ [][/\ pumpPc # "none" => pumpPc' # "none"
          /\ m.running => m'.running
          /\ \A c \in Categories :
               (HandleOf(c) # 0 /\ HandleOf(c)' = 0)
               => (pumpPc = HookPcOf(c) /\ CallbackOf(c) = Nil)]_vars

C24_Witness ==
    /\ AllIdle
    /\ calls = 3
    /\ registered = NoEvents
    /\ m.running
    /\ pumpPc = "wait"
    /\ clipboardWindow # 0

\* C26: PeekMessage, DispatchMessage and Sleep are issued only by a step of
\* the pump loop taken while no sender is waiting, at most one message is
\* dispatched by a step, the pump sleeps only if no message was pending, and
\* while a sender is waiting the next step of the polling pump accepts a
\* snapshot and no callback is started
C26_SnapshotBeforeMessages ==
    [][/\ Count(osCalls', "PeekMessage") > 0 => (pumpPc = "select" /\ ~SenderWaiting)
       /\ Count(osCalls', "PeekMessage") <= 1
       /\ Count(osCalls', "DispatchMessage") <= 1
       /\ Count(osCalls', "Sleep") > 0
          => (~SenderWaiting /\ msgQ = <<>> /\ Count(osCalls', "DispatchMessage") = 0)
       /\ (SenderWaiting /\ pumpPc = "select" /\ pumpPc' # "select")
          => \E t \in Threads : Accepted(t) /\ events' = snap[t]
       /\ (SenderWaiting /\ pumpPc # "callback") => pumpPc' # "callback"]_vars

C26_Witness ==
    /\ SenderWaiting
    /\ pumpPc = "select"
    /\ msgQ # <<>>
    /\ calls = 2

\* C27: the pump's callbacks change only when a snapshot that is not all nil
\* is accepted, and then become that snapshot; the acceptance of an all-nil
\* snapshot changes neither callbacks nor handles, issues no OS call and
\* leaves the pump waiting for the next snapshot; a reconciliation starts
\* only with a snapshot that is not all nil
C27_CurrentIsLastNonNilSnapshot ==
    /\ [](pumpPc = "none" => Current = NoEvents)
    /\ [][/\ Current' # Current
             => \E t \in Threads : Accepted(t) /\ ~allNil(snap[t]) /\ Current' = snap[t]
          /\ \A t \in Threads :
               Accepted(t)
               => IF allNil(snap[t])
                  THEN /\ Current' = Current
                       /\ pumpPc' = "wait"
                  ELSE /\ Current' = snap[t]
                       /\ pumpPc' = "hookMouse"
          /\ pumpPc = "wait" => pumpPc' \in {"wait", "hookMouse"}
          /\ (pumpPc' = "hookMouse" /\ pumpPc # "hookMouse") => ~allNil(events')]_vars

C27_Witness ==
    /\ pumpPc = "wait"
    /\ allNil(events)
    /\ Current = [keyboard |-> Nil, mouse |-> "g", clipboard |-> Nil]
    /\ mouseHook # 0

C30_ClipboardHandleOnlyWithListener ==
    clipboardWindow # 0 => listener

\* C35: when the pump takes a message for a category whose handle is present,
\* the callback of the category is set, and the callback is started if the
\* procedure reaches its call; every completed procedure that reached the
\* nil guard invoked the callback
C35_NilGuardsNeverSkip ==
    /\ [](pumpPc \in {"select", "callback", "cbsend"}
          => \A c \in Categories : HandleOf(c) # 0 => CallbackOf(c) # Nil)
    /\ []((lastProc.cat # "none" /\ ReachesCallback(lastProc)) => lastProc.invoked)
    /\ [][(/\ pumpPc = "select"
           /\ Len(msgQ') < Len(msgQ)
           /\ HandleOf(Head(msgQ).cat) # 0)
          => /\ CallbackOf(Head(msgQ).cat) # Nil
             /\ ReachesCallback(Head(msgQ))
                => (pumpPc' = "callback" /\ callee' = CallbackOf(Head(msgQ).cat))]_vars

C35_Witness ==
    /\ pumpPc = "callback"
    /\ e.cat = "clipboard"
    /\ callee = "g"
    /\ clipboardCallback = "g"
    /\ keyboardHook # 0
    /\ calls = 3

\* ---------------------------------------------------------------------
\* The keyboard and mouse hook procedures (lines 548-564 and 587-615) as
\* functions of the record the OS passes them.

\* records the OS passes during one run
MaxKeyRecords == 2
MaxMouseRecords == 1
\* records of a run that mixes keyboard and mouse records
MaxMixedRecords == 2
\* calls of Cancel a callback makes on one event
MaxCancelCalls == 2

\* message identifiers the low-level mouse hook reports (w32.WM_...)
WM_MOUSEMOVE == 512
WM_LBUTTONDOWN == 513
WM_LBUTTONUP == 514
WM_RBUTTONDOWN == 516
WM_RBUTTONUP == 517
WM_MBUTTONDOWN == 519
WM_MBUTTONUP == 520
WM_MOUSEWHEEL == 522
WM_XBUTTONDOWN == 523
WM_MOUSEHWHEEL == 526

LeftMouseDown == WM_LBUTTONDOWN
LeftMouseUp == WM_LBUTTONUP
RightMouseDown == WM_RBUTTONDOWN
RightMouseUp == WM_RBUTTONUP
MiddleMouseDown == WM_MBUTTONDOWN
MiddleMouseUp == WM_MBUTTONUP
MouseMove == WM_MOUSEMOVE
MouseWheel == WM_MOUSEWHEEL
MouseWheelHorizontal == WM_MOUSEHWHEEL

\* the declared values of MouseEventType
MouseEventTypes ==
    {LeftMouseDown, LeftMouseUp, RightMouseDown, RightMouseUp, MiddleMouseDown,
     MiddleMouseUp, MouseMove, MouseWheel, MouseWheelHorizontal}

\* the w parameter of the mouse hook procedure
MouseMessages ==
    {WM_MOUSEMOVE, WM_LBUTTONDOWN, WM_LBUTTONUP, WM_RBUTTONDOWN, WM_RBUTTONUP,
     WM_MBUTTONDOWN, WM_MBUTTONUP, WM_MOUSEWHEEL, WM_XBUTTONDOWN, WM_MOUSEHWHEEL}

\* KBDLLHOOKSTRUCT: VkCode is a 32-bit value, Flags holds LLKHF_INJECTED
\* (0x10) and LLKHF_UP (0x80)
KBDLLHOOKSTRUCT == [VkCode : {65, 65601}, Flags : {0, 16, 128, 144}]

\* MSLLHOOKSTRUCT: the 32-bit MouseData is kept as its two 16-bit words
\* (its value is hi * 65536 + lo); 65416 is 0xFF88
MSLLHOOKSTRUCT ==
    [MouseData : [hi : {0, 120, 240, 65416}, lo : {0}],
     Pt : {[X |-> 5, Y |-> -7]},
     Flags : {0, 1}]

\* what w32.GetCursorPos answers to MousePosition
CursorAnswers == {[ok |-> TRUE, x |-> 1, y |-> 2], [ok |-> FALSE, x |-> 0, y |-> 0]}

KeyboardRecords == [kind : {"keyboard"}, code : HookCodes, kb : KBDLLHOOKSTRUCT]

MouseRecords ==
    [kind : {"mouse"}, code : HookCodes, w : MouseMessages,
     mouse : MSLLHOOKSTRUCT, cursor : CursorAnswers]

\* the records of a run that mixes the two hooks: a key, and the right mouse
\* button going down and up
MixedRecords ==
    {r \in KeyboardRecords : r.kb = [VkCode |-> 65, Flags |-> 0]}
    \cup {r \in MouseRecords : /\ r.w \in {WM_RBUTTONDOWN, WM_RBUTTONUP}
                               /\ r.mouse.MouseData.hi = 0
                               /\ r.mouse.Flags = 0
                               /\ r.cursor.ok}

SeqsUpTo(S, n) == UNION {[1..k -> S] : k \in 0..n}

\* Go's conversions uint16(x) and int16(x) of a non-negative x
uint16(x) == x % 65536

\* int16, but the value is not read as a signed one
int16Unsigned(x) == x % 65536

int16(x) == LET u == x % 65536 IN IF u >= 32768 THEN u - 65536 ELSE u

\* flags & bit != 0, for a bit that is a power of two
BitSet(flags, bit) == (flags \div bit) % 2 = 1

\* a float64 that is a multiple of 1/120, as its numerator over 120
Float120(n) == [num |-> n, den |-> 120]

\* MousePosition(): x, y, err
MousePosition(cursor) ==
    IF cursor.ok
    THEN [x |-> cursor.x, y |-> cursor.y, err |-> FALSE]
    ELSE [x |-> 0, y |-> 0, err |-> TRUE]

\* KeyboardEventOf, but Down is read with the wrong sense
KeyboardEventOfKeyUpIsDown(kb) ==
    [Key |-> uint16(kb.VkCode),
     Down |-> BitSet(kb.Flags, 128),
     Injected |-> BitSet(kb.Flags, 16),
     cancelled |-> FALSE]

\* the KeyboardEvent the keyboard hook procedure builds
KeyboardEventOf(kb) ==
    [Key |-> uint16(kb.VkCode),
     Down |-> ~BitSet(kb.Flags, 128),
     Injected |-> BitSet(kb.Flags, 16),
     cancelled |-> FALSE]

\* MouseEventOf, but the position is always the point of the hook record
MouseEventOfRawPoint(w, mouse, cursor) ==
    LET wheel == IF w = WM_MOUSEWHEEL \/ w = WM_MOUSEHWHEEL
                 THEN Float120(int16(mouse.MouseData.hi))
                 ELSE Float120(120)
    IN  [Type |-> w,
         X |-> mouse.Pt.X,
         Y |-> mouse.Pt.Y,
         Wheel |-> wheel,
         Injected |-> BitSet(mouse.Flags, 1),
         cancelled |-> FALSE]

\* the MouseEvent the mouse hook procedure builds
MouseEventOf(w, mouse, cursor) ==
    LET wheel == IF w = WM_MOUSEWHEEL \/ w = WM_MOUSEHWHEEL
                 THEN Float120(int16(mouse.MouseData.hi))
                 ELSE Float120(120)
        pos == MousePosition(cursor)
    IN  [Type |-> w,
         X |-> IF pos.err THEN mouse.Pt.X ELSE pos.x,
         Y |-> IF pos.err THEN mouse.Pt.Y ELSE pos.y,
         Wheel |-> wheel,
         Injected |-> BitSet(mouse.Flags, 1),
         cancelled |-> FALSE]

\* KeyboardEvent.Cancel / MouseEvent.Cancel
EventCancel(ev) == [ev EXCEPT !.cancelled = TRUE]

\* the event after n calls of its Cancel method
RECURSIVE CancelTimes(_, _)
CancelTimes(ev, n) == IF n = 0 THEN ev ELSE CancelTimes(EventCancel(ev), n - 1)

\* ProcOutcome, but the cancellation flag lives on from one event to the next
ProcOutcomeFlagLivesOn(kind, code, ev, callback, cancel, nextResult) ==
    LET invoked == code >= 0 /\ callback # Nil
        flag == built # <<>> /\ built[Len(built)].cancelled
        after == IF invoked
                 THEN CancelTimes([ev EXCEPT !.cancelled = flag], cancel)
                 ELSE ev
        cancelled == code >= 0 /\ after.cancelled
    IN  [kind |-> kind,
         made |-> IF code >= 0 THEN <<ev>> ELSE <<>>,
         passed |-> IF invoked THEN <<ev>> ELSE <<>>,
         cancels |-> IF invoked THEN cancel ELSE 0,
         after |-> IF code >= 0 THEN <<after>> ELSE <<>>,
         cancelled |-> cancelled,
         nextCalls |-> IF cancelled THEN 0 ELSE 1,
         next |-> IF cancelled THEN -1 ELSE nextResult,
         ret |-> IF cancelled THEN 1 ELSE nextResult]

\* ProcOutcome, but the hook code is not looked at
ProcOutcomeAnyCode(kind, code, ev, callback, cancel, nextResult) ==
    LET invoked == callback # Nil
        after == IF invoked THEN CancelTimes(ev, cancel) ELSE ev
        cancelled == after.cancelled
    IN  [kind |-> kind,
         made |-> <<ev>>,
         passed |-> IF invoked THEN <<ev>> ELSE <<>>,
         cancels |-> IF invoked THEN cancel ELSE 0,
         after |-> <<after>>,
         cancelled |-> cancelled,
         nextCalls |-> IF cancelled THEN 0 ELSE 1,
         next |-> IF cancelled THEN -1 ELSE nextResult,
         ret |-> IF cancelled THEN 1 ELSE nextResult]

\* one run of a hook procedure on a record: the event it built (made), the
\* event as the callback received it (passed), the number of Cancel calls the
\* callback made on it (cancels), the event when the callback returned
\* (after), whether "if e.cancelled" held, the CallNextHookEx calls, the
\* result of CallNextHookEx (-1 if not called) and the value returned
ProcOutcome(kind, code, ev, callback, cancel, nextResult) ==
    LET invoked == code >= 0 /\ callback # Nil
        after == IF invoked THEN CancelTimes(ev, cancel) ELSE ev
        cancelled == code >= 0 /\ after.cancelled
    IN  [kind |-> kind,
         made |-> IF code >= 0 THEN <<ev>> ELSE <<>>,
         passed |-> IF invoked THEN <<ev>> ELSE <<>>,
         cancels |-> IF invoked THEN cancel ELSE 0,
         after |-> IF code >= 0 THEN <<after>> ELSE <<>>,
         cancelled |-> cancelled,
         nextCalls |-> IF cancelled THEN 0 ELSE 1,
         next |-> IF cancelled THEN -1 ELSE nextResult,
         ret |-> IF cancelled THEN 1 ELSE nextResult]

\* both callbacks registered by two calls, both hooks installed, the pump
\* polling; the OS is about to pass a run of records to one of the hooks
HookInit ==
    /\ callers = {1}
    /\ m = [mu |-> 0, running |-> TRUE,
            keyboardEvent |-> "f", mouseEvent |-> "f", clipboardEvent |-> Nil]
    /\ pc = [t \in Threads |-> "idle"]
    /\ snap = [t \in Threads |-> NoEvents]
    /\ calls = 2
    /\ overlapped = FALSE
    /\ loopsStarted = 1
    /\ pumpPc = "select"
    /\ events = [keyboard |-> "f", mouse |-> "f", clipboard |-> Nil]
    /\ keyboardCallback = "f"
    /\ mouseCallback = "f"
    /\ clipboardCallback = Nil
    /\ keyboardHook = 1
    /\ mouseHook = 1
    /\ clipboardWindow = 0
    /\ listener = FALSE
    /\ msgQ = <<>>
    /\ nextId = 1
    /\ e = NoEvent
    /\ callee = Nil
    /\ osCalls = <<>>
    /\ lastProc = NoProc
    /\ failed = [c \in Categories |-> FALSE]
    /\ before = NoBefore
    /\ registered = [keyboard |-> "f", mouse |-> "f", clipboard |-> Nil]
    /\ raw \in SeqsUpTo(KeyboardRecords, MaxKeyRecords)
               \cup SeqsUpTo(MouseRecords, MaxMouseRecords)
               \cup SeqsUpTo(MixedRecords, MaxMixedRecords)
    /\ built = <<>>
    /\ monitors = <<>>
    /\ captured = NoCapture
    /\ request = NoRequest
    /\ sent = <<>>
    /\ result = "none"
    /\ typing = NoTyping

\* the OS calls the keyboard hook procedure with the next record
keyboardProc ==
    /\ keyboardHook # 0
    /\ Len(built) < Len(raw)
    /\ LET r == raw[Len(built) + 1]
       IN  /\ r.kind = "keyboard"
           /\ \E cancel \in 0..MaxCancelCalls, nextResult \in NextHookResults :
                built' = Append(built,
                                ProcOutcome("keyboard", r.code, KeyboardEventOf(r.kb),
                                            keyboardCallback, cancel, nextResult))
    /\ UNCHANGED <<inputVars, raw, monitors, captured, before, registered, m, callerVars,
                   loopVars, queueVars, procVars, loopsStarted, pumpPc, events,
                   osCalls, lastProc>>

\* the OS calls the mouse hook procedure with the next record
mouseProc ==
    /\ mouseHook # 0
    /\ Len(built) < Len(raw)
    /\ LET r == raw[Len(built) + 1]
       IN  /\ r.kind = "mouse"
           /\ \E cancel \in 0..MaxCancelCalls, nextResult \in NextHookResults :
                built' = Append(built,
                                ProcOutcome("mouse", r.code,
                                            MouseEventOf(r.w, r.mouse, r.cursor),
                                            mouseCallback, cancel, nextResult))
    /\ UNCHANGED <<inputVars, raw, monitors, captured, before, registered, m, callerVars,
                   loopVars, queueVars, procVars, loopsStarted, pumpPc, events,
                   osCalls, lastProc>>

HookNext == keyboardProc \/ mouseProc

HookSpec == HookInit /\ [][HookNext]_vars

\* C15: the Wheel of every MouseEvent passed to the callback is nonzero only
\* if its Type is MouseWheel or MouseWheelHorizontal
C15_WheelOnlyForWheelTypes ==
    \A i \in 1..Len(built) :
        built[i].kind = "mouse"
        => \A k \in 1..Len(built[i].passed) :
              built[i].passed[k].Wheel.num # 0
              => built[i].passed[k].Type \in {MouseWheel, MouseWheelHorizontal}

\* C16: the Type of every MouseEvent passed to the callback is one of the
\* nine declared MouseEventType values
C16_TypeIsDeclared ==
    \A i \in 1..Len(built) :
        built[i].kind = "mouse"
        => \A k \in 1..Len(built[i].passed) :
              built[i].passed[k].Type \in MouseEventTypes

\* C20: while a keyboard callback is registered, the i-th keyboard record, if
\* its code is >= 0, makes exactly one callback invocation, whose event has
\* Key = the virtual-key code modulo 2^16, Down iff bit 0x80 of the flags is
\* clear and Injected iff bit 0x10 is set
C20_KeyboardRecordToEvent ==
    \A i \in 1..Len(built) :
        (raw[i].kind = "keyboard" /\ raw[i].code >= 0 /\ keyboardCallback # Nil)
        => /\ Len(built[i].passed) = 1
           /\ built[i].passed[1].Key = raw[i].kb.VkCode % 65536
           /\ built[i].passed[1].Down <=> ((raw[i].kb.Flags \div 128) % 2 = 0)
           /\ built[i].passed[1].Injected <=> ((raw[i].kb.Flags \div 16) % 2 = 1)

C20_Witness ==
    /\ keyboardCallback # Nil
    /\ Len(built) = 2
    /\ raw[1] = [kind |-> "keyboard", code |-> 0, kb |-> [VkCode |-> 65, Flags |-> 16]]
    /\ raw[2] = [kind |-> "keyboard", code |-> 0, kb |-> [VkCode |-> 65, Flags |-> 144]]
    /\ built[1].passed[1].Key = 65
    /\ built[1].passed[1].Down /\ built[1].passed[1].Injected
    /\ ~built[2].passed[1].Down

\* C21: every mouse record with code >= 0 makes exactly one callback
\* invocation; X and Y of its event are the answer of the cursor-position query
\* if the query succeeded and the point of the record if it failed, and
\* Injected holds iff bit 0 of the flags of the record is set
C21_PositionWithFallback ==
    \A i \in 1..Len(built) :
        (raw[i].kind = "mouse" /\ raw[i].code >= 0 /\ mouseCallback # Nil)
        => /\ Len(built[i].passed) = 1
           /\ IF raw[i].cursor.ok
              THEN /\ built[i].passed[1].X = raw[i].cursor.x
                   /\ built[i].passed[1].Y = raw[i].cursor.y
              ELSE /\ built[i].passed[1].X = raw[i].mouse.Pt.X
                   /\ built[i].passed[1].Y = raw[i].mouse.Pt.Y
           /\ built[i].passed[1].Injected <=> (raw[i].mouse.Flags % 2 = 1)

C21_Witness ==
    /\ mouseCallback # Nil
    /\ Len(built) = 1
    /\ raw[1].kind = "mouse"
    /\ raw[1].code >= 0
    /\ ~raw[1].cursor.ok
    /\ raw[1].mouse.Flags = 1
    /\ Len(built[1].passed) = 1
    /\ built[1].passed[1].X = 5
    /\ built[1].passed[1].Y = -7
    /\ built[1].passed[1].Injected

\* C23: every event is built with its cancellation flag false; a record is
\* kept from CallNextHookEx exactly if the callback called Cancel on the event
\* of this very record, whatever happened to the records before it, of either
\* hook; and one or more calls of Cancel set the flag and change nothing else
C23_CancellationIsPerEvent ==
    \A i \in 1..Len(built) :
        /\ \A k \in 1..Len(built[i].made) : ~built[i].made[k].cancelled
        /\ \A k \in 1..Len(built[i].passed) : ~built[i].passed[k].cancelled
        /\ (built[i].nextCalls = 0) <=> (built[i].cancels > 0)
        /\ \A k \in 1..Len(built[i].after) :
              built[i].after[k] =
                  [built[i].made[k] EXCEPT !.cancelled = (built[i].cancels > 0)]

C23_Witness ==
    /\ Len(built) = 2
    /\ raw[1].kind = "mouse" /\ raw[1].w = WM_RBUTTONDOWN /\ raw[1].code >= 0
    /\ raw[2].kind = "mouse" /\ raw[2].w = WM_RBUTTONUP /\ raw[2].code >= 0
    /\ built[1].cancels = 2
    /\ built[1].nextCalls = 0
    /\ built[1].ret = 1
    /\ built[2].cancels = 0
    /\ built[2].nextCalls = 1

\* C29: a keyboard or mouse record with code < 0 builds no event and invokes
\* no callback; CallNextHookEx is called exactly once and its result returned
C29_NegativeCodePassedOn ==
    \A i \in 1..Len(built) :
        raw[i].code < 0
        => /\ built[i].made = <<>>
           /\ built[i].passed = <<>>
           /\ built[i].nextCalls = 1
           /\ built[i].next \in NextHookResults
           /\ built[i].ret = built[i].next

C29_Witness ==
    /\ Len(built) = 2
    /\ raw[1].kind = "keyboard" /\ raw[1].code < 0
    /\ raw[2].kind = "mouse" /\ raw[2].code < 0
    /\ keyboardCallback # Nil /\ mouseCallback # Nil
    /\ built[2].nextCalls = 1

\* ---------------------------------------------------------------------
\* CaptureMonitors (lines 1171-1204) as a function of its argument.

\* monitors in the list passed to CaptureMonitors
MaxMonitors == 2

\* the Rectangle of a Monitor, in virtual screen coordinates
Rectangles == [X : {-2, 0, 3}, Y : {-1, 0}, Width : {1, 4}, Height : {1, 2}]

\* HullStep, but the top edge is never extended
HullStepKeepsTop(hull, mon) ==
    LET left == mon.X
        top == mon.Y
        right == mon.X + mon.Width
        bottom == mon.Y + mon.Height
    IN  [hullLeft |-> IF left < hull.hullLeft THEN left ELSE hull.hullLeft,
         hullTop |-> hull.hullTop,
         hullRight |-> IF right > hull.hullRight THEN right ELSE hull.hullRight,
         hullBottom |-> IF bottom > hull.hullBottom THEN bottom ELSE hull.hullBottom]

\* the body of "for _, m := range monitors"
HullStep(hull, mon) ==
    LET left == mon.X
        top == mon.Y
        right == mon.X + mon.Width
        bottom == mon.Y + mon.Height
    IN  [hullLeft |-> IF left < hull.hullLeft THEN left ELSE hull.hullLeft,
         hullTop |-> IF top < hull.hullTop THEN top ELSE hull.hullTop,
         hullRight |-> IF right > hull.hullRight THEN right ELSE hull.hullRight,
         hullBottom |-> IF bottom > hull.hullBottom THEN bottom ELSE hull.hullBottom]

\* the loop over the monitors from the i-th on
RECURSIVE HullLoop(_, _, _)
HullLoop(hull, ms, i) ==
    IF i > Len(ms) THEN hull ELSE HullLoop(HullStep(hull, ms[i]), ms, i + 1)

\* the rectangle CaptureMonitors passes to CaptureScreenRect for a list that
\* is not empty
HullRectangle(ms) ==
    LET first == [hullLeft |-> ms[1].X,
                  hullTop |-> ms[1].Y,
                  hullRight |-> ms[1].X + ms[1].Width,
                  hullBottom |-> ms[1].Y + ms[1].Height]
        hull == HullLoop(first, ms, 1)
    IN  [X |-> hull.hullLeft,
         Y |-> hull.hullTop,
         Width |-> hull.hullRight - hull.hullLeft,
         Height |-> hull.hullBottom - hull.hullTop]

\* nothing is registered; CaptureMonitors is about to be called with a list
CaptureInit ==
    /\ callers = {1}
    /\ m = [mu |-> 0, running |-> FALSE,
            keyboardEvent |-> Nil, mouseEvent |-> Nil, clipboardEvent |-> Nil]
    /\ pc = [t \in Threads |-> "idle"]
    /\ snap = [t \in Threads |-> NoEvents]
    /\ calls = 0
    /\ overlapped = FALSE
    /\ loopsStarted = 0
    /\ pumpPc = "none"
    /\ events = NoEvents
    /\ keyboardCallback = Nil /\ mouseCallback = Nil /\ clipboardCallback = Nil
    /\ keyboardHook = 0 /\ mouseHook = 0 /\ clipboardWindow = 0
    /\ listener = FALSE
    /\ msgQ = <<>>
    /\ nextId = 1
    /\ e = NoEvent
    /\ callee = Nil
    /\ osCalls = <<>>
    /\ lastProc = NoProc
    /\ failed = [c \in Categories |-> FALSE]
    /\ before = NoBefore
    /\ registered = NoEvents
    /\ raw = <<>>
    /\ built = <<>>
    /\ monitors \in SeqsUpTo(Rectangles, MaxMonitors)
    /\ captured = NoCapture
    /\ request = NoRequest
    /\ sent = <<>>
    /\ result = "none"
    /\ typing = NoTyping

\* the call CaptureMonitors(monitors): an error for the empty list, else
\* CaptureScreenRect on the hull, whose result (GetDC may fail) is returned
CaptureMonitors ==
    /\ ~captured.called
    /\ IF Len(monitors) = 0
       THEN captured' = [called |-> TRUE, err |-> TRUE, rects |-> <<>>]
       ELSE \E ok \in BOOLEAN :
                captured' = [called |-> TRUE, err |-> ~ok,
                             rects |-> <<HullRectangle(monitors)>>]
    /\ UNCHANGED <<inputVars, raw, built, monitors, before, registered, m, callerVars,
                   loopVars, queueVars, procVars, loopsStarted, pumpPc, events,
                   osCalls, lastProc>>

CaptureNext == CaptureMonitors

CaptureSpec == CaptureInit /\ [][CaptureNext]_vars

\* C25: for a list that is not empty CaptureMonitors captures one rectangle,
\* whose left, top, right and bottom edge are the least X, the least Y, the
\* greatest X + Width and the greatest Y + Height of the monitors of the list;
\* for the empty list it returns an error and captures nothing
C25_CapturesBoundingHull ==
    captured.called
    => IF Len(monitors) = 0
       THEN captured.err /\ captured.rects = <<>>
       ELSE /\ Len(captured.rects) = 1
            /\ LET r == captured.rects[1]
                   I == 1..Len(monitors)
               IN  /\ \E i \in I : r.X = monitors[i].X
                   /\ \A i \in I : r.X <= monitors[i].X
                   /\ \E i \in I : r.Y = monitors[i].Y
                   /\ \A i \in I : r.Y <= monitors[i].Y
                   /\ \E i \in I : r.X + r.Width = monitors[i].X + monitors[i].Width
                   /\ \A i \in I : r.X + r.Width >= monitors[i].X + monitors[i].Width
                   /\ \E i \in I : r.Y + r.Height = monitors[i].Y + monitors[i].Height
                   /\ \A i \in I : r.Y + r.Height >= monitors[i].Y + monitors[i].Height

C25_Witness ==
    /\ captured.called
    /\ ~captured.err
    /\ monitors = <<[X |-> 0, Y |-> 0, Width |-> 4, Height |-> 1],
                    [X |-> -2, Y |-> -1, Width |-> 1, Height |-> 2]>>
    /\ captured.rects = <<[X |-> -2, Y |-> -1, Width |-> 6, Height |-> 2]>>

\* C31: the Wheel of a wheel event is the high word of the mouse data of the
\* record, read as a signed 16-bit number, over 120: the high words 120, 240
\* and 0xFF88 give 1, 2 and -1
C31_WheelTicksAreSigned ==
    \A i \in 1..Len(built) :
        (/\ raw[i].kind = "mouse" /\ raw[i].code >= 0 /\ mouseCallback # Nil
         /\ raw[i].w \in {WM_MOUSEWHEEL, WM_MOUSEHWHEEL})
        => LET hi == raw[i].mouse.MouseData.hi
               wheel == built[i].passed[1].Wheel
           IN  /\ wheel.den = 120
               /\ wheel.num = IF hi >= 32768 THEN hi - 65536 ELSE hi
               /\ hi = 120 => wheel.num = wheel.den
               /\ hi = 240 => wheel.num = 2 * wheel.den
               /\ hi = 65416 => wheel.num = -wheel.den

C31_Witness ==
    /\ Len(built) = 1
    /\ raw[1].kind = "mouse" /\ raw[1].code >= 0
    /\ raw[1].w = WM_MOUSEWHEEL
    /\ raw[1].mouse.MouseData.hi = 65416
    /\ built[1].passed[1].Wheel = [num |-> -120, den |-> 120]

\* ---------------------------------------------------------------------
\* The input functions: mouse buttons at a position, the mouse wheel, typing
\* ---------------------------------------------------------------------
\* number of runes of the string given to TypeWithDelay
MaxRunes == 3

errBlocked == "errBlocked"
errSetCursor == "errSetCursor"

\* the code points of the runes '\b', '\n' and '\r'
Backspace == 8
LineFeed == 10
CarriageReturn == 13
\* the runes of the strings typed: the three above, 'A' and the Euro sign
Runes == {Backspace, LineFeed, CarriageReturn, 65, 8364}
\* screen coordinates given to the ...MouseAt functions
Positions == {[x |-> 10, y |-> 20], [x |-> -5, y |-> 0]}
\* wheel rotations given to MoveMouseWheelBy, as exact binary fractions:
\* one tick back, none, 1/512 of a tick, one tick forward
WheelRotations == {[num |-> -512, den |-> 512], [num |-> 0, den |-> 512],
                   [num |-> 1, den |-> 512], [num |-> 512, den |-> 512]}

\* the exported functions that move the cursor and then use a button: the
\* helper each one calls and the flags it passes
MouseAtFunctions ==
    [ClickLeftMouseAt |-> [helper |-> "clickAt",
                           flags |-> <<"MOUSEEVENTF_LEFTDOWN", "MOUSEEVENTF_LEFTUP">>],
     PressLeftMouseAt |-> [helper |-> "mouseInputAt",
                           flags |-> <<"MOUSEEVENTF_LEFTDOWN">>],
     ReleaseLeftMouseAt |-> [helper |-> "mouseInputAt",
                             flags |-> <<"MOUSEEVENTF_LEFTUP">>],
     ClickRightMouseAt |-> [helper |-> "clickAt",
                            flags |-> <<"MOUSEEVENTF_RIGHTDOWN", "MOUSEEVENTF_RIGHTUP">>],
     PressRightMouseAt |-> [helper |-> "mouseInputAt",
                            flags |-> <<"MOUSEEVENTF_RIGHTDOWN">>],
     ReleaseRightMouseAt |-> [helper |-> "mouseInputAt",
                              flags |-> <<"MOUSEEVENTF_RIGHTUP">>],
     ClickMiddleMouseAt |-> [helper |-> "clickAt",
                             flags |-> <<"MOUSEEVENTF_MIDDLEDOWN", "MOUSEEVENTF_MIDDLEUP">>],
     PressMiddleMouseAt |-> [helper |-> "mouseInputAt",
                             flags |-> <<"MOUSEEVENTF_MIDDLEDOWN">>],
     ReleaseMiddleMouseAt |-> [helper |-> "mouseInputAt",
                               flags |-> <<"MOUSEEVENTF_MIDDLEUP">>]]

\* the calls of one run: one call of one function with its arguments
Requests ==
    [fn : DOMAIN MouseAtFunctions, pos : Positions]
    \cup [fn : {"MoveMouseWheelBy"}, dx : WheelRotations, dy : WheelRotations]
    \cup [fn : {"TypeWithDelay"}, s : SeqsUpTo(Runes, MaxRunes)]

\* SendInput returns the number of events it inserted: none (the input was
\* blocked), one, or all k of them
SendResults(k) == {0, 1, k}

\* w32.MouseInput(w32.MOUSEINPUT{MouseData: data, Flags: flags}); the fields
\* that are not given (Dx, Dy) are zero
MouseInput(data, flags) ==
    [type |-> "mouse", Dx |-> 0, Dy |-> 0, MouseData |-> data, Flags |-> flags]

\* w32.KeyboardInput(w32.KEYBDINPUT{Vk: vk, Scan: scan, Flags: flags})
KeyboardInput(vk, scan, flags) ==
    [type |-> "keyboard", Vk |-> vk, Scan |-> scan, Flags |-> flags]

\* the zero values of the fields Vk and Scan
NoVk == "0"
NoScan == <<>>

\* the entries of sent: a call of SetCursorPos and its answer, a call of
\* SendInput with its inputs and result, and the rune typed by it
SetCursorPos(x, y, ok) ==
    [call |-> "SetCursorPos", x |-> x, y |-> y, ok |-> ok,
     inputs |-> <<>>, n |-> 0, rune |-> -1]

SendInput(inputs, n, r) ==
    [call |-> "SendInput", x |-> 0, y |-> 0, ok |-> n # 0,
     inputs |-> inputs, n |-> n, rune |-> r]

NoData == [hi |-> 0, lo |-> 0]

\* click(down, up): one submission of the two inputs, n is its result
click(down, up, n) ==
    [calls |-> <<SendInput(<<MouseInput(NoData, down), MouseInput(NoData, up)>>, n, -1)>>,
     err |-> IF n = 0 THEN errBlocked ELSE Nil]

\* mouseInput(flags): one submission of one input
mouseInput(flags, n) ==
    [calls |-> <<SendInput(<<MouseInput(NoData, flags)>>, n, -1)>>,
     err |-> IF n = 0 THEN errBlocked ELSE Nil]

\* clickAt, but the click is made although the cursor did not move
clickAtIgnoresMove(x, y, down, up, ok, n) ==
    LET c == click(down, up, n)
    IN  [calls |-> <<SetCursorPos(x, y, ok)>> \o c.calls, err |-> c.err]

\* clickAt(x, y, down, up); ok is the answer of SetCursorPos
clickAt(x, y, down, up, ok, n) ==
    IF ~ok
    THEN [calls |-> <<SetCursorPos(x, y, ok)>>, err |-> errSetCursor]
    ELSE LET c == click(down, up, n)
         IN  [calls |-> <<SetCursorPos(x, y, ok)>> \o c.calls, err |-> c.err]

\* mouseInputAt(x, y, flags)
mouseInputAt(x, y, flags, ok, n) ==
    IF ~ok
    THEN [calls |-> <<SetCursorPos(x, y, ok)>>, err |-> errSetCursor]
    ELSE LET c == mouseInput(flags, n)
         IN  [calls |-> <<SetCursorPos(x, y, ok)>> \o c.calls, err |-> c.err]

\* int32(a / b) of a float64 a / b: the fraction is cut off, towards zero
Trunc(a, b) == IF a >= 0 THEN a \div b ELSE -((-a) \div b)

\* round of MoveMouseWheelBy: int32(x - 0.5) below zero, int32(x + 0.5) else
round(x) ==
    IF x.num < 0 THEN Trunc(2 * x.num - x.den, 2 * x.den)
    ELSE Trunc(2 * x.num + x.den, 2 * x.den)

\* uint32(v) of an int32 v, as two 16-bit words
uint32(v) == [hi |-> (v \div 65536) % 65536, lo |-> v % 65536]

\* the wheel input of a rotation d: MouseData is uint32(round(d * 120))
WheelInput(d, flags) ==
    MouseInput(uint32(round([num |-> d.num * 120, den |-> d.den])), flags)

\* MoveMouseWheelBy, but the horizontal input follows a blocked vertical one
MoveMouseWheelByKeepsGoing(dx, dy, ny, nx) ==
    LET vertical == IF dy.num # 0
                    THEN <<SendInput(<<WheelInput(dy, "MOUSEEVENTF_WHEEL")>>, ny, -1)>>
                    ELSE <<>>
        horizontal == IF dx.num # 0
                      THEN <<SendInput(<<WheelInput(dx, "MOUSEEVENTF_HWHEEL")>>, nx, -1)>>
                      ELSE <<>>
    IN  [calls |-> vertical \o horizontal,
         err |-> IF (dy.num # 0 /\ ny = 0) \/ (dx.num # 0 /\ nx = 0)
                 THEN errBlocked ELSE Nil]

\* MoveMouseWheelBy(dx, dy); ny and nx are the results of the two SendInput
MoveMouseWheelBy(dx, dy, ny, nx) ==
    LET vertical == IF dy.num # 0
                    THEN <<SendInput(<<WheelInput(dy, "MOUSEEVENTF_WHEEL")>>, ny, -1)>>
                    ELSE <<>>
        horizontal == IF dx.num # 0
                      THEN <<SendInput(<<WheelInput(dx, "MOUSEEVENTF_HWHEEL")>>, nx, -1)>>
                      ELSE <<>>
    IN  IF dy.num # 0 /\ ny = 0
        THEN [calls |-> vertical, err |-> errBlocked]
        ELSE [calls |-> vertical \o horizontal,
              err |-> IF dx.num # 0 /\ nx = 0 THEN errBlocked ELSE Nil]

\* toScanCode(vk): the scan code MapVirtualKey gives for the virtual key
toScanCode(vk) == <<"MAPVK_VK_TO_VSC", vk>>

\* upDown(vk): the key down and the key up input of a key, by scan code
upDown(vk) ==
    [down |-> KeyboardInput(NoVk, toScanCode(vk), {"KEYEVENTF_SCANCODE"}),
     up |-> KeyboardInput(NoVk, toScanCode(vk), {"KEYEVENTF_SCANCODE", "KEYEVENTF_KEYUP"})]

alt == upDown("VK_LMENU")

\* nums[d + 1] is the pair of the numpad key of the digit d
nums == <<upDown("VK_NUMPAD0"), upDown("VK_NUMPAD1"), upDown("VK_NUMPAD2"),
          upDown("VK_NUMPAD3"), upDown("VK_NUMPAD4"), upDown("VK_NUMPAD5"),
          upDown("VK_NUMPAD6"), upDown("VK_NUMPAD7"), upDown("VK_NUMPAD8"),
          upDown("VK_NUMPAD9")>>

\* strings.Replace(s, old, new, -1) for a pattern old that is not empty
RECURSIVE Replace(_, _, _)
Replace(str, old, new) ==
    IF str = <<>> THEN <<>>
    ELSE IF Len(old) <= Len(str) /\ SubSeq(str, 1, Len(old)) = old
         THEN new \o Replace(SubSeq(str, Len(old) + 1, Len(str)), old, new)
         ELSE <<Head(str)>> \o Replace(Tail(str), old, new)

\* fmt.Sprint(n) of an int n >= 0: its decimal digits
RECURSIVE Sprint(_)
Sprint(n) == IF n < 10 THEN <<n>> ELSE Append(Sprint(n \div 10), n % 10)

\* the inner loop of TypeWithDelay: a down and an up input for every digit
RECURSIVE AppendDigits(_, _)
AppendDigits(keys, digits) ==
    IF digits = <<>> THEN keys
    ELSE AppendDigits(keys \o <<nums[Head(digits) + 1].down, nums[Head(digits) + 1].up>>,
                      Tail(digits))

\* Batch, but the slice keys is not cut back to its first three inputs
BatchKeepsDigits(keys, r) ==
    Append(AppendDigits(keys, Sprint(r)), alt.up)

\* the slice keys TypeWithDelay submits for a rune r
Batch(keys, r) ==
    Append(AppendDigits(SubSeq(keys, 1, 3), Sprint(r)), alt.up)

\* PressKey(key): one submission of the key down input of the virtual key
PressKey(key, n, r) ==
    [calls |-> <<SendInput(<<KeyboardInput(key, NoScan, {})>>, n, r)>>,
     err |-> IF n = 0 THEN errBlocked ELSE Nil]

\* one of the input functions is about to be called
InputInit ==
    /\ callers = {1}
    /\ m = [mu |-> 0, running |-> FALSE,
            keyboardEvent |-> Nil, mouseEvent |-> Nil, clipboardEvent |-> Nil]
    /\ pc = [t \in Threads |-> "idle"]
    /\ snap = [t \in Threads |-> NoEvents]
    /\ calls = 0
    /\ overlapped = FALSE
    /\ loopsStarted = 0
    /\ pumpPc = "none"
    /\ events = NoEvents
    /\ keyboardCallback = Nil /\ mouseCallback = Nil /\ clipboardCallback = Nil
    /\ keyboardHook = 0 /\ mouseHook = 0 /\ clipboardWindow = 0
    /\ listener = FALSE
    /\ msgQ = <<>>
    /\ nextId = 1
    /\ e = NoEvent
    /\ callee = Nil
    /\ osCalls = <<>>
    /\ lastProc = NoProc
    /\ failed = [c \in Categories |-> FALSE]
    /\ before = NoBefore
    /\ registered = NoEvents
    /\ raw = <<>>
    /\ built = <<>>
    /\ monitors = <<>>
    /\ captured = NoCapture
    /\ request \in Requests
    /\ sent = <<>>
    /\ result = "none"
    /\ typing = NoTyping

InputUnchanged ==
    UNCHANGED <<request, raw, built, monitors, captured, before, registered, m,
                callerVars, loopVars, queueVars, procVars, loopsStarted, pumpPc,
                events, osCalls, lastProc>>

\* the call of Click...MouseAt(x, y)
ClickMouseAt ==
    /\ result = "none"
    /\ request.fn \in DOMAIN MouseAtFunctions
    /\ MouseAtFunctions[request.fn].helper = "clickAt"
    /\ LET flags == MouseAtFunctions[request.fn].flags
       IN  \E ok \in BOOLEAN, n \in SendResults(2) :
               LET c == clickAt(request.pos.x, request.pos.y, flags[1], flags[2], ok, n)
               IN  /\ sent' = c.calls
                   /\ result' = c.err
    /\ UNCHANGED typing
    /\ InputUnchanged

\* the call of Press...MouseAt(x, y) or Release...MouseAt(x, y)
PressReleaseMouseAt ==
    /\ result = "none"
    /\ request.fn \in DOMAIN MouseAtFunctions
    /\ MouseAtFunctions[request.fn].helper = "mouseInputAt"
    /\ LET flags == MouseAtFunctions[request.fn].flags
       IN  \E ok \in BOOLEAN, n \in SendResults(1) :
               LET c == mouseInputAt(request.pos.x, request.pos.y, flags[1], ok, n)
               IN  /\ sent' = c.calls
                   /\ result' = c.err
    /\ UNCHANGED typing
    /\ InputUnchanged

\* the call of MoveMouseWheelBy(dx, dy)
MoveWheel ==
    /\ result = "none"
    /\ request.fn = "MoveMouseWheelBy"
    /\ \E ny \in SendResults(1), nx \in SendResults(1) :
           LET c == MoveMouseWheelBy(request.dx, request.dy, ny, nx)
           IN  /\ sent' = c.calls
               /\ result' = c.err
    /\ UNCHANGED typing
    /\ InputUnchanged

\* TypeWithDelay(s, delay) up to its loop: keys holds Alt down and the
\* numpad 0, the line breaks of s are unified to '\r'
TypeBegin ==
    /\ result = "none"
    /\ request.fn = "TypeWithDelay"
    /\ typing' = [s |-> Replace(Replace(request.s, <<CarriageReturn, LineFeed>>,
                                        <<CarriageReturn>>),
                                <<LineFeed>>, <<CarriageReturn>>),
                  keys |-> <<alt.down, nums[1].down, nums[1].up>>,
                  i |-> 0]
    /\ result' = "running"
    /\ UNCHANGED sent
    /\ InputUnchanged

\* one turn of the loop of TypeWithDelay, the sleep at its end included
TypeRune ==
    /\ result = "running"
    /\ request.fn = "TypeWithDelay"
    /\ typing.i < Len(typing.s)
    /\ LET r == typing.s[typing.i + 1]
       IN  IF r = CarriageReturn \/ r = Backspace
           THEN \E n \in SendResults(1) :
                    LET c == PressKey(IF r = CarriageReturn THEN "VK_RETURN" ELSE "VK_BACK",
                                      n, r)
                    IN  /\ sent' = sent \o c.calls
                        /\ result' = IF c.err # Nil THEN c.err ELSE "running"
                        /\ typing' = [typing EXCEPT !.i = IF c.err # Nil THEN @ ELSE @ + 1]
           ELSE LET keys == Batch(typing.keys, r)
                IN  \E n \in SendResults(Len(keys)) :
                        /\ sent' = Append(sent, SendInput(keys, n, r))
                        /\ result' = IF n = 0 THEN errBlocked ELSE "running"
                        /\ typing' = [typing EXCEPT !.keys = keys,
                                                    !.i = IF n = 0 THEN @ ELSE @ + 1]
    /\ InputUnchanged

\* the loop of TypeWithDelay is over: return nil
TypeReturn ==
    /\ result = "running"
    /\ request.fn = "TypeWithDelay"
    /\ typing.i = Len(typing.s)
    /\ result' = Nil
    /\ UNCHANGED <<sent, typing>>
    /\ InputUnchanged

InputNext ==
    \/ ClickMouseAt
    \/ PressReleaseMouseAt
    \/ MoveWheel
    \/ TypeBegin
    \/ TypeRune
    \/ TypeReturn

InputSpec == InputInit /\ [][InputNext]_vars

\* C32: a ...MouseAt function first moves the cursor to its position; if that
\* fails it returns errSetCursor and submits no input; if it succeeds it
\* submits the button input once, right after the move and without
\* coordinates of its own (down then up for a click, the one flag for a press
\* or a release), and returns errBlocked exactly if no event was inserted
C32_MoveThenButton ==
    (request.fn \in DOMAIN MouseAtFunctions /\ result # "none")
    => LET button == CASE request.fn \in {"ClickLeftMouseAt", "PressLeftMouseAt",
                                          "ReleaseLeftMouseAt"} -> "LEFT"
                       [] request.fn \in {"ClickRightMouseAt", "PressRightMouseAt",
                                          "ReleaseRightMouseAt"} -> "RIGHT"
                       [] OTHER -> "MIDDLE"
           downFlag == CASE button = "LEFT" -> "MOUSEEVENTF_LEFTDOWN"
                         [] button = "RIGHT" -> "MOUSEEVENTF_RIGHTDOWN"
                         [] OTHER -> "MOUSEEVENTF_MIDDLEDOWN"
           upFlag == CASE button = "LEFT" -> "MOUSEEVENTF_LEFTUP"
                       [] button = "RIGHT" -> "MOUSEEVENTF_RIGHTUP"
                       [] OTHER -> "MOUSEEVENTF_MIDDLEUP"
           expected == IF request.fn \in {"ClickLeftMouseAt", "ClickRightMouseAt",
                                          "ClickMiddleMouseAt"}
                       THEN <<downFlag, upFlag>>
                       ELSE IF request.fn \in {"PressLeftMouseAt", "PressRightMouseAt",
                                               "PressMiddleMouseAt"}
                            THEN <<downFlag>>
                            ELSE <<upFlag>>
       IN  /\ Len(sent) >= 1
           /\ sent[1].call = "SetCursorPos"
           /\ sent[1].x = request.pos.x /\ sent[1].y = request.pos.y
           /\ ~sent[1].ok => (result = errSetCursor /\ Len(sent) = 1)
           /\ sent[1].ok
              => /\ Len(sent) = 2
                 /\ sent[2].call = "SendInput"
                 /\ Len(sent[2].inputs) = Len(expected)
                 /\ \A k \in 1..Len(expected) :
                        /\ sent[2].inputs[k].type = "mouse"
                        /\ sent[2].inputs[k].Flags = expected[k]
                        /\ sent[2].inputs[k].Dx = 0 /\ sent[2].inputs[k].Dy = 0
                 /\ result = errBlocked <=> sent[2].n = 0
                 /\ result \in {errBlocked, Nil}

\* a right click at a position: the move succeeded, both events were inserted
C32_Witness ==
    /\ request.fn = "ClickRightMouseAt"
    /\ Len(sent) = 2
    /\ sent[1].ok
    /\ sent[2].n = 2
    /\ result = Nil

\* C33: MoveMouseWheelBy submits a vertical wheel input exactly if dy is not
\* zero, and a horizontal one exactly if dx is not zero and the vertical one
\* was not blocked; the vertical one goes first; with dx = dy = 0 nothing is
\* submitted and nil is returned; a blocked submission is the last one and
\* makes the result errBlocked
C33_WheelInputs ==
    (request.fn = "MoveMouseWheelBy" /\ result # "none")
    => LET vertical == {k \in 1..Len(sent) :
                            sent[k].inputs[1].Flags = "MOUSEEVENTF_WHEEL"}
           horizontal == {k \in 1..Len(sent) :
                              sent[k].inputs[1].Flags = "MOUSEEVENTF_HWHEEL"}
           verticalBlocked == \E k \in vertical : sent[k].n = 0
       IN  /\ \A k \in 1..Len(sent) :
                  /\ sent[k].call = "SendInput"
                  /\ Len(sent[k].inputs) = 1
                  /\ sent[k].inputs[1].type = "mouse"
                  /\ k \in vertical \cup horizontal
           /\ Cardinality(vertical) = IF request.dy.num # 0 THEN 1 ELSE 0
           /\ Cardinality(horizontal)
                = IF request.dx.num # 0 /\ ~verticalBlocked THEN 1 ELSE 0
           /\ \A v \in vertical, h \in horizontal : v < h
           /\ (request.dx.num = 0 /\ request.dy.num = 0)
              => (sent = <<>> /\ result = Nil)
           /\ verticalBlocked => result = errBlocked
           /\ result = errBlocked <=> (\E k \in 1..Len(sent) : sent[k].n = 0)
           /\ result \in {errBlocked, Nil}

\* one tick back and one tick to the right, both inserted: the vertical input
\* carries -120, the horizontal one 120
C33_Witness ==
    /\ request.fn = "MoveMouseWheelBy"
    /\ request.dy.num = -request.dy.den
    /\ request.dx.num = request.dx.den
    /\ result = Nil
    /\ Len(sent) = 2
    /\ sent[1].inputs[1].Flags = "MOUSEEVENTF_WHEEL"
    /\ sent[1].inputs[1].MouseData = [hi |-> 65535, lo |-> 65416]
    /\ sent[2].inputs[1].Flags = "MOUSEEVENTF_HWHEEL"
    /\ sent[2].inputs[1].MouseData = [hi |-> 0, lo |-> 120]

\* C34: TypeWithDelay makes one submission per rune of its string, a line
\* break "\r\n", "\n" or "\r" counting as one rune '\r'.  For a rune that is
\* neither '\r' nor '\b' the submission is Alt down, numpad 0 down, numpad 0
\* up, a down and an up of the numpad key of every decimal digit of the code
\* point in order, Alt up, and nothing else; for '\r' it is one press of
\* Return, for '\b' one press of Backspace.  A blocked submission is the last
\* one and makes the result errBlocked; a call that returns nil has made all
\* submissions, one Return press per line break of the string.
C34_TypedBatches ==
    (request.fn = "TypeWithDelay" /\ result # "none")
    => LET str == request.s
           \* the runes that are not the "\n" of a "\r\n"
           keep == {i \in 1..Len(str) :
                        ~(str[i] = 10 /\ i > 1 /\ str[i - 1] = 13)}
           expected == [k \in 1..Cardinality(keep) |->
                            LET i == CHOOSE j \in keep :
                                         Cardinality({h \in keep : h <= j}) = k
                            IN  IF str[i] = 10 THEN 13 ELSE str[i]]
           lineBreaks == Cardinality({i \in 1..Len(str) : str[i] \in {10, 13}})
                         - Cardinality({i \in 1..Len(str) - 1 :
                                            str[i] = 13 /\ str[i + 1] = 10})
           numpad == <<"VK_NUMPAD0", "VK_NUMPAD1", "VK_NUMPAD2", "VK_NUMPAD3",
                       "VK_NUMPAD4", "VK_NUMPAD5", "VK_NUMPAD6", "VK_NUMPAD7",
                       "VK_NUMPAD8", "VK_NUMPAD9">>
           IsDown(in, vk) == /\ in.type = "keyboard" /\ in.Vk = "0"
                             /\ in.Scan = <<"MAPVK_VK_TO_VSC", vk>>
                             /\ in.Flags = {"KEYEVENTF_SCANCODE"}
           IsUp(in, vk) == /\ in.type = "keyboard" /\ in.Vk = "0"
                           /\ in.Scan = <<"MAPVK_VK_TO_VSC", vk>>
                           /\ in.Flags = {"KEYEVENTF_SCANCODE", "KEYEVENTF_KEYUP"}
           IsPress(in, vk) == /\ in.type = "keyboard" /\ in.Vk = vk
                              /\ in.Scan = <<>> /\ in.Flags = {}
           IsBatch(inputs, r) ==
               /\ Len(inputs) >= 6
               /\ Len(inputs) % 2 = 0
               /\ IsDown(inputs[1], "VK_LMENU")
               /\ IsDown(inputs[2], "VK_NUMPAD0")
               /\ IsUp(inputs[3], "VK_NUMPAD0")
               /\ IsUp(inputs[Len(inputs)], "VK_LMENU")
               /\ LET nd == (Len(inputs) - 4) \div 2
                      digit(j) == CHOOSE d \in 0..9 :
                                      inputs[2 + 2 * j].Scan = <<"MAPVK_VK_TO_VSC", numpad[d + 1]>>
                      value[j \in 0..nd] ==
                          IF j = 0 THEN 0 ELSE 10 * value[j - 1] + digit(j)
                  IN  /\ \A j \in 1..nd :
                             \E d \in 0..9 : /\ IsDown(inputs[2 + 2 * j], numpad[d + 1])
                                             /\ IsUp(inputs[3 + 2 * j], numpad[d + 1])
                      /\ value[nd] = r
                      /\ nd > 1 => digit(1) # 0
           returns == {k \in 1..Len(sent) :
                           /\ Len(sent[k].inputs) = 1
                           /\ IsPress(sent[k].inputs[1], "VK_RETURN")}
       IN  /\ Len(sent) <= Len(expected)
           /\ \A k \in 1..Len(sent) :
                  /\ sent[k].call = "SendInput"
                  /\ sent[k].rune = expected[k]
                  /\ IF expected[k] = 13
                     THEN Len(sent[k].inputs) = 1 /\ IsPress(sent[k].inputs[1], "VK_RETURN")
                     ELSE IF expected[k] = 8
                          THEN /\ Len(sent[k].inputs) = 1
                               /\ IsPress(sent[k].inputs[1], "VK_BACK")
                          ELSE IsBatch(sent[k].inputs, expected[k])
                  /\ sent[k].n = 0 => (k = Len(sent) /\ result = errBlocked)
           /\ result = errBlocked => (sent # <<>> /\ sent[Len(sent)].n = 0)
           /\ result = Nil => (Len(sent) = Len(expected)
                               /\ Cardinality(returns) = lineBreaks)
           /\ result \in {"running", errBlocked, Nil}

\* the Euro sign, 'A' and a line feed were typed without a block: the batch
\* of 'A' has the two digits 6 and 5 only, the line feed is a Return press
C34_Witness ==
    /\ request.fn = "TypeWithDelay"
    /\ request.s = <<8364, 65, 10>>
    /\ result = Nil
    /\ Len(sent) = 3
    /\ Len(sent[1].inputs) = 12
    /\ Len(sent[2].inputs) = 8
    /\ sent[3].inputs[1].Vk = "VK_RETURN"

====
